---- MODULE Spec2Model ----
(***************************************************************************)
(* State-machine model of the Copilot usage panel indicator                *)
(* (CopilotUsageIndicator): token discovery, the usage request and the     *)
(* menu/panel widgets it drives.                                           *)
(*                                                                         *)
(* Conventions.  A JavaScript string that the code inspects character by   *)
(* character (tokens, plan identifiers, command output) is a sequence of   *)
(* one-character strings.  An optional value (null/undefined, or a value)  *)
(* is None == <<>> or Some(v) == <<v>>.  Percentages are fixed-point       *)
(* numbers in tenths of a percent (805 is 80.5).  Widget label texts that  *)
(* the code only writes are TLA+ strings.                                  *)
(***************************************************************************)
EXTENDS Integers, Sequences, FiniteSets, TLC

\* ------------------------------------------------------------------------
\* Bounds of the model
\* ------------------------------------------------------------------------

\* number of refresh operations (_resolveToken runs) in flight at once
MaxRefresh == 1

\* ------------------------------------------------------------------------
\* Optional values and JavaScript strings
\* ------------------------------------------------------------------------

None == <<>>

Some(v) == <<v>>

\* Coalesce preferring its second operand
Coalesce_SecondFirst(a, b) == IF b # None THEN b ELSE a

\* a ?? b
Coalesce(a, b) == IF a # None THEN a ELSE b

WhiteSpace == {" ", "\n", "\t"}

RECURSIVE TrimStart(_)
TrimStart(s) ==
  IF s # <<>> /\ Head(s) \in WhiteSpace THEN TrimStart(Tail(s)) ELSE s

RECURSIVE TrimEnd(_)
TrimEnd(s) ==
  IF s # <<>> /\ s[Len(s)] \in WhiteSpace
    THEN TrimEnd(SubSeq(s, 1, Len(s) - 1))
    ELSE s

\* String.prototype.trim
Trim(s) == TrimEnd(TrimStart(s))

\* truthiness of a string | null value: null and "" are falsy
Truthy(opt) == opt # None /\ opt[1] # <<>>

\* token || null
OrNull(opt) == IF Truthy(opt) THEN opt ELSE None

LowerAlphabet ==
  <<"a","b","c","d","e","f","g","h","i","j","k","l","m",
    "n","o","p","q","r","s","t","u","v","w","x","y","z">>

UpperAlphabet ==
  <<"A","B","C","D","E","F","G","H","I","J","K","L","M",
    "N","O","P","Q","R","S","T","U","V","W","X","Y","Z">>

Digits == {"0","1","2","3","4","5","6","7","8","9"}

IndexIn(alphabet, c) ==
  IF \E i \in 1..Len(alphabet) : alphabet[i] = c
    THEN CHOOSE i \in 1..Len(alphabet) : alphabet[i] = c
    ELSE 0

ToLowerChar(c) ==
  IF IndexIn(UpperAlphabet, c) # 0 THEN LowerAlphabet[IndexIn(UpperAlphabet, c)] ELSE c

ToUpperChar(c) ==
  IF IndexIn(LowerAlphabet, c) # 0 THEN UpperAlphabet[IndexIn(LowerAlphabet, c)] ELSE c

\* String.prototype.toLowerCase
ToLowerCase(s) == [i \in 1..Len(s) |-> ToLowerChar(s[i])]

\* the regular-expression class \w
IsWordChar(c) ==
  IndexIn(LowerAlphabet, c) # 0 \/ IndexIn(UpperAlphabet, c) # 0 \/ c \in Digits \/ c = "_"

\* ------------------------------------------------------------------------
\* Arithmetic on tenths of a percent
\* ------------------------------------------------------------------------

\* Math.round of x/10: to the nearest integer, halves towards +infinity
MathRound10(x) == (x + 5) \div 10

\* Number.prototype.toFixed(0) of x/10: halves away from zero
ToFixed0(x) == IF x >= 0 THEN (x + 5) \div 10 ELSE -((5 - x) \div 10)

Min(a, b) == IF a <= b THEN a ELSE b

Max(a, b) == IF a >= b THEN a ELSE b

\* ------------------------------------------------------------------------
\* Plans
\* ------------------------------------------------------------------------

CHAT_LIMITED_PLANS ==
  { <<"f","r","e","e">>,
    <<"c","o","p","i","l","o","t","_","f","r","e","e">>,
    <<"c","o","p","i","l","o","t","-","f","r","e","e">> }

\* raw.replace(/[_-]/g, " ")
ReplaceSeparators(raw) ==
  [i \in 1..Len(raw) |-> IF raw[i] \in {"_", "-"} THEN " " ELSE raw[i]]

\* .replace(/\b\w/g, c => c.toUpperCase()): a word character at the start of
\* the text or after a non-word character is upper-cased
CapitalizeWords(s) ==
  [i \in 1..Len(s) |->
     IF IsWordChar(s[i]) /\ (i = 1 \/ ~IsWordChar(s[i - 1]))
       THEN ToUpperChar(s[i])
       ELSE s[i]]

FormatPlan(raw) == CapitalizeWords(ReplaceSeparators(raw))

\* ------------------------------------------------------------------------
\* Widgets
\* ------------------------------------------------------------------------

TRACK_PX == 244

LevelClasses == {"usage-low", "usage-medium", "usage-high", "usage-critical"}

\* St.Widget.set_width's argument for a fill of pct (tenths of a percent)
BarWidth(clampedPct) == (clampedPct * TRACK_PX + 500) \div 1000

BarLevel(clampedPct) ==
  IF clampedPct >= 900 THEN "usage-critical"
  ELSE IF clampedPct >= 700 THEN "usage-high"
  ELSE IF clampedPct >= 400 THEN "usage-medium"
  ELSE "usage-low"

\* UpdateBar without the removal of the level classes
UpdateBar_KeepsClasses(bar, pct) ==
  LET clampedPct == Min(1000, Max(0, pct))
  IN  [width |-> BarWidth(clampedPct),
       cls   |-> bar.cls \cup {BarLevel(clampedPct)}]

UpdateBar(bar, pct) ==
  LET clampedPct == Min(1000, Max(0, pct))
  IN  [width |-> BarWidth(clampedPct),
       cls   |-> (bar.cls \ LevelClasses) \cup {BarLevel(clampedPct)}]

\* the row _addUsageRow builds
NewUsageRow ==
  [item         |-> TRUE,
   bar          |-> [width |-> -1, cls |-> {"usage-low"}],
   usedLabel    |-> "",
   percentLabel |-> ""]

\* SetMenuState that switches the setup items only and leaves the usage items
\* as they are
SetMenuState_SetupItemsOnly(w, state) ==
  IF w.menuState = state THEN w
  ELSE
    LET isSetup == (state = "setup")
        w1 == [w EXCEPT !.menuState        = state,
                        !.setupItem        = isSetup,
                        !.setupSep         = isSetup,
                        !.openSettingsItem = isSetup,
                        !.settingsItem     = TRUE]
    IN  IF isSetup
          THEN [w1 EXCEPT !.chatResult.item = FALSE, !.chatSep = FALSE]
          ELSE w1

\* SetMenuState that leaves the chat row as it is when it switches to setup
SetMenuState_KeepsChatRow(w, state) ==
  IF w.menuState = state THEN w
  ELSE
    LET isSetup == (state = "setup")
    IN  [w EXCEPT !.menuState        = state,
                  !.setupItem        = isSetup,
                  !.setupSep         = isSetup,
                  !.openSettingsItem = isSetup,
                  !.headerItem       = ~isSetup,
                  !.premiumResult.item = ~isSetup,
                  !.footerItem       = ~isSetup,
                  !.settingsItem     = TRUE]

SetMenuState(w, state) ==
  IF w.menuState = state THEN w
  ELSE
    LET isSetup == (state = "setup")
        w1 == [w EXCEPT !.menuState        = state,
                        !.setupItem        = isSetup,
                        !.setupSep         = isSetup,
                        !.openSettingsItem = isSetup,
                        !.headerItem       = ~isSetup,
                        !.premiumResult.item = ~isSetup,
                        !.footerItem       = ~isSetup,
                        !.settingsItem     = TRUE]
    IN  IF isSetup
          THEN [w1 EXCEPT !.chatResult.item = FALSE, !.chatSep = FALSE]
          ELSE w1

\* UpdateChatVisibility comparing the plan as it is spelled
UpdateChatVisibility_CaseSensitive(w, plan) ==
  LET isLimited == plan # None /\ plan[1] \in CHAT_LIMITED_PLANS
  IN  [w EXCEPT !.chatResult.item = isLimited, !.chatSep = isLimited]

UpdateChatVisibility(w, plan) ==
  LET isLimited == plan # None /\ ToLowerCase(plan[1]) \in CHAT_LIMITED_PLANS
  IN  [w EXCEPT !.chatResult.item = isLimited, !.chatSep = isLimited]

\* the widget tree after _buildMenu, before any field initialiser has run
BuiltMenu ==
  SetMenuState(
    [menuState        |-> "null",
     setupItem        |-> TRUE,
     setupSep         |-> TRUE,
     openSettingsItem |-> TRUE,
     setupHeading     |-> "GitHub Token Required",
     setupBody        |-> "No credentials found. Open Settings to add your token.",
     headerItem       |-> TRUE,
     planLabel        |-> <<>>,
     premiumResult    |-> NewUsageRow,
     chatSep          |-> TRUE,
     chatResult       |-> NewUsageRow,
     footerItem       |-> TRUE,
     updatedLabel     |-> "Not yet refreshed",
     settingsItem     |-> TRUE,
     warningDot       |-> [visible |-> FALSE, cls |-> {}]],
    "setup")

\* ShowSetupState without the two set_text calls
ShowSetupState_KeepsTexts(w, heading, body) ==
  LET w1 == SetMenuState(w, "setup")
  IN  [w1 EXCEPT !.warningDot = [visible |-> TRUE,
                                 cls |-> (@.cls \ {"dot-critical"}) \cup {"dot-high"}]]

\* _showSetupState
ShowSetupState(w, heading, body) ==
  LET w1 == SetMenuState(w, "setup")
  IN  [w1 EXCEPT !.setupHeading = heading,
                 !.setupBody    = body,
                 !.warningDot   = [visible |-> TRUE,
                                   cls |-> (@.cls \ {"dot-critical"}) \cup {"dot-high"}]]

\* ShowNetworkError that falls back to the setup menu
ShowNetworkError_Setup(w, detail) ==
  [SetMenuState(w, "setup")
     EXCEPT !.updatedLabel = "Error: " \o detail,
            !.warningDot   = [visible |-> TRUE,
                              cls |-> (@.cls \ {"dot-critical"}) \cup {"dot-high"}]]

ShowNetworkError(w, detail) ==
  [w EXCEPT !.updatedLabel = "Error: " \o detail,
            !.warningDot   = [visible |-> TRUE,
                              cls |-> (@.cls \ {"dot-critical"}) \cup {"dot-high"}]]

\* snap?.percent_remaining ?? snap?.percentRemaining ?? null
PctRemaining(snap) ==
  IF snap = None THEN None
  ELSE Coalesce(snap[1].percent_remaining, snap[1].percentRemaining)

\* `${Math.round(used)}%`
UsedText(used) == ToString(MathRound10(used)) \o "%"

\* `${r.toFixed(0)}% remaining`; toFixed keeps the sign of a negative number
\* that rounds to zero
RemainingText(r) ==
  (IF r < 0 /\ ToFixed0(r) = 0 THEN "-0" ELSE ToString(ToFixed0(r))) \o "% remaining"

\* a percentage the payload gives as a JSON string instead of a number; n is
\* the number JavaScript arithmetic coerces the string to
NumericString(n) == <<"string", n>>

IsNumericString(opt) == Len(opt) = 2

\* one quota row of _updateUsageDisplay up to the point where r.toFixed
\* throws a TypeError because r is a string: `100 - r` has coerced it, the
\* bar and the used label are written, the remaining label is not
UpdateRowUntilThrow(row, r) ==
  [row EXCEPT !.bar       = UpdateBar(@, 1000 - r[2]),
              !.usedLabel = UsedText(1000 - r[2])]

\* UpdateRow testing `if (r)` instead of `r !== null`
UpdateRow_Truthy(row, r) ==
  IF r # None /\ r[1] # 0
    THEN [row EXCEPT !.bar          = UpdateBar(@, 1000 - r[1]),
                     !.usedLabel    = UsedText(1000 - r[1]),
                     !.percentLabel = RemainingText(r[1])]
    ELSE [row EXCEPT !.bar          = UpdateBar(@, 0),
                     !.usedLabel    = "unlimited",
                     !.percentLabel = ""]

\* one quota row of _updateUsageDisplay
UpdateRow(row, r) ==
  IF r # None
    THEN [row EXCEPT !.bar          = UpdateBar(@, 1000 - r[1]),
                     !.usedLabel    = UsedText(1000 - r[1]),
                     !.percentLabel = RemainingText(r[1])]
    ELSE [row EXCEPT !.bar          = UpdateBar(@, 0),
                     !.usedLabel    = "unlimited",
                     !.percentLabel = ""]

UpdateWarningDot(dot, premR) ==
  IF premR # None /\ premR[1] <= 100
    THEN [visible |-> TRUE,
          cls |-> dot.cls \cup {IF premR[1] <= 0 THEN "dot-critical" ELSE "dot-high"}]
    ELSE [visible |-> FALSE, cls |-> dot.cls \ {"dot-critical", "dot-high"}]

Pad2(n) == IF n < 10 THEN "0" \o ToString(n) ELSE ToString(n)

\* `Updated ${hh}:${mm}`
UpdatedText(now) == "Updated " \o Pad2(now.hours) \o ":" \o Pad2(now.minutes)

DataPlan(data) == Coalesce(data.copilot_plan, data.copilotPlan)

DataSnapshots(data) == Coalesce(data.quota_snapshots, data.quotaSnapshots)

DataPremium(data) ==
  LET snapshots == DataSnapshots(data)
  IN  IF snapshots = None THEN None
      ELSE Coalesce(snapshots[1].premium_interactions, snapshots[1].premiumInteractions)

DataChat(data) ==
  LET snapshots == DataSnapshots(data)
  IN  IF snapshots = None THEN None ELSE snapshots[1].chat

\* NoUsageFields of a display that never takes the early return
NoUsageFields_Never(data) == FALSE

\* !plan && !premium && !chat
NoUsageFields(data) ==
  ~Truthy(DataPlan(data)) /\ DataPremium(data) = None /\ DataChat(data) = None

\* _updateUsageDisplay from _setMenuState("usage") to _updateChatVisibility
UsageHeader(w, plan) ==
  LET w1 == SetMenuState(w, "usage")
      w2 == [w1 EXCEPT !.planLabel =
                         IF Truthy(plan) THEN FormatPlan(plan[1]) ELSE <<>>]
  IN  UpdateChatVisibility(w2, plan)

\* _updateUsageDisplay throws on its way: a remaining percentage is a string
UpdateUsageDisplayThrows(data) ==
  /\ ~NoUsageFields(data)
  /\ \/ IsNumericString(PctRemaining(DataPremium(data)))
     \/ IsNumericString(PctRemaining(DataChat(data)))

\* the widgets at the point where _updateUsageDisplay throws
UpdateUsageDisplayUntilThrow(w, data) ==
  LET w3    == UsageHeader(w, DataPlan(data))
      premR == PctRemaining(DataPremium(data))
      chatR == PctRemaining(DataChat(data))
  IN  IF IsNumericString(premR)
        THEN [w3 EXCEPT !.premiumResult = UpdateRowUntilThrow(@, premR)]
        ELSE [w3 EXCEPT !.premiumResult = UpdateRow(@, premR),
                        !.chatResult    = UpdateRowUntilThrow(@, chatR)]

\* _updateUsageDisplay when it runs to its end
UpdateUsageDisplay(w, data, now) ==
  LET plan    == DataPlan(data)
      premium == DataPremium(data)
      chat    == DataChat(data)
  IN  IF NoUsageFields(data)
        THEN ShowSetupState(w, "Copilot Data Unavailable",
               "API returned no usage data. Your token may lack Copilot permissions.")
        ELSE
          LET w3 == UsageHeader(w, plan)
              premR == PctRemaining(premium)
              chatR == PctRemaining(chat)
          IN  [w3 EXCEPT !.premiumResult = UpdateRow(@, premR),
                         !.chatResult    = UpdateRow(@, chatR),
                         !.warningDot    = UpdateWarningDot(@, premR),
                         !.updatedLabel  = UpdatedText(now)]

\* ------------------------------------------------------------------------
\* Inputs: what the environment can hand to the indicator
\* ------------------------------------------------------------------------

\* tokens as the sources hold them
CliToken == <<"c">>

FileToken == <<"f">>

ManualToken == <<"m">>

\* outcomes of collecting the output of a spawned `gh auth token`:
\* communicate_utf8_finish throws, or delivers the standard output (the exit
\* status is not part of what it delivers)
SubprocessOutcomes ==
  { [finished |-> FALSE, exit |-> 1, stdout |-> None],
    [finished |-> TRUE,  exit |-> 1, stdout |-> Some(<<>>)],
    [finished |-> TRUE,  exit |-> 0, stdout |-> Some(<<"\n">>)],
    [finished |-> TRUE,  exit |-> 0, stdout |-> None],
    [finished |-> TRUE,  exit |-> 0, stdout |-> Some(CliToken \o <<"\n">>)] }

\* what the extractor of awaited probe i can return for some document: every
\* extractor can return null or a token; readToken_hostsJson returns the
\* field as it is, so also the empty string (the others test the value's
\* truthiness or match \S+, and never return an empty string)
Extractable(i) ==
  {None, Some(FileToken)} \cup (IF i = 3 THEN {Some(<<>>)} ELSE {})

\* outcomes of loading the credential file of awaited probe i, decoding it
\* and running its extractor: the file cannot be loaded, its content cannot
\* be parsed (the extractor is not reached), or the extractor returns
FileOutcomes(i) ==
  { [loaded |-> FALSE, parsed |-> FALSE, extracted |-> None],
    [loaded |-> TRUE,  parsed |-> FALSE, extracted |-> None] }
  \cup { [loaded |-> TRUE, parsed |-> TRUE, extracted |-> x] : x \in Extractable(i) }

\* ------------------------------------------------------------------------
\* Credential documents and the token extractors
\* ------------------------------------------------------------------------

\* a decoded value: t is its JavaScript type, s the characters of a string
\* (the digits of a number), items the entries of an object or the elements
\* of an array in key order
JValue(t, s, items) == [t |-> t, s |-> s, items |-> items]

JUndefined == JValue("undefined", <<>>, <<>>)

JNull == JValue("null", <<>>, <<>>)

JNumber == JValue("number", <<"7">>, <<>>)

JString(s) == JValue("string", s, <<>>)

JEntry(k, v) == [k |-> k, v |-> v]

JObject(items) == JValue("object", <<>>, items)

JArray(elems) ==
  JValue("array", <<>>, [n \in DOMAIN elems |-> JEntry(ToString(n - 1), elems[n])])

\* v == null
Nullish(v) == v.t \in {"null", "undefined"}

\* the truthiness of a value
JsTruthy(v) ==
  /\ ~Nullish(v)
  /\ v.t = "string" => v.s # <<>>

\* v[key] for a key that is not an index
Get(v, key) ==
  IF v.t = "object" /\ \E n \in DOMAIN v.items : v.items[n].k = key
    THEN v.items[CHOOSE n \in DOMAIN v.items :
                   /\ v.items[n].k = key
                   /\ \A m \in DOMAIN v.items : v.items[m].k = key => n <= m].v
    ELSE JUndefined

\* v?.[key]
OptGet(v, key) == IF Nullish(v) THEN JUndefined ELSE Get(v, key)

\* a ?? null
OrJNull(v) == IF Nullish(v) THEN JNull ELSE v

\* the values data[key] for key of Object.keys(data): the entries of an
\* object, the elements of an array, the characters of a string, nothing for
\* a number
OwnValues(v) ==
  IF v.t \in {"object", "array"} THEN [n \in DOMAIN v.items |-> v.items[n].v]
  ELSE IF v.t = "string" THEN [n \in DOMAIN v.s |-> JString(<<v.s[n]>>)]
  ELSE <<>>

\* FirstTruthyField going on after a match: the field of the last value that
\* has a truthy one
FirstTruthyField_Last(values, field) ==
  LET has == {n \in DOMAIN values : JsTruthy(OptGet(values[n], field))}
  IN  IF has = {} THEN JNull
      ELSE OptGet(values[CHOOSE n \in has : \A m \in has : m <= n], field)

\* the first value of a sequence that has a truthy field, null without one
RECURSIVE FirstTruthyField(_, _)
FirstTruthyField(values, field) ==
  IF values = <<>> THEN JNull
  ELSE IF JsTruthy(OptGet(Head(values), field)) THEN OptGet(Head(values), field)
  ELSE FirstTruthyField(Tail(values), field)

\* readToken_hostsJson taking the oauth_token of the first top-level entry
\* that has one, whatever its key
readToken_hostsJson_AnyHost(content) ==
  IF Nullish(content) THEN JNull
  ELSE FirstTruthyField(OwnValues(content), "oauth_token")

\* data?.["github.com"]?.oauth_token ?? null
readToken_hostsJson(content) ==
  OrJNull(OptGet(OptGet(content, "github.com"), "oauth_token"))

readToken_appsJson(content) ==
  IF Nullish(content) THEN JNull
  ELSE FirstTruthyField(OwnValues(content), "oauth_token")

\* the loop over the keys of readToken_oauthJson: values that are not arrays
\* are skipped
RECURSIVE OauthScan(_)
OauthScan(values) ==
  IF values = <<>> THEN JNull
  ELSE IF Head(values).t # "array" THEN OauthScan(Tail(values))
  ELSE IF ~Nullish(FirstTruthyField(OwnValues(Head(values)), "accessToken"))
    THEN FirstTruthyField(OwnValues(Head(values)), "accessToken")
  ELSE OauthScan(Tail(values))

readToken_oauthJson(content) ==
  IF Nullish(content) THEN JNull ELSE OauthScan(OwnValues(content))

YmlMarker == <<"o", "a", "u", "t", "h", "_", "t", "o", "k", "e", "n", ":">>

\* the text has the characters of pat from position i on
MatchesAt(text, i, pat) ==
  /\ i + Len(pat) - 1 <= Len(text)
  /\ \A n \in DOMAIN pat : text[i + n - 1] = pat[n]

\* the first position from i on that holds no white space (Len + 1 at the end)
RECURSIVE SkipSpace(_, _)
SkipSpace(text, i) ==
  IF i <= Len(text) /\ text[i] \in WhiteSpace THEN SkipSpace(text, i + 1) ELSE i

\* the first position from i on that holds white space (Len + 1 at the end)
RECURSIVE SkipNonSpace(_, _)
SkipNonSpace(text, i) ==
  IF i <= Len(text) /\ text[i] \notin WhiteSpace THEN SkipNonSpace(text, i + 1) ELSE i

\* /oauth_token:\s*(\S+)/ tried from position i on: group 1 of the leftmost
\* match
RECURSIVE MatchYml(_, _)
MatchYml(text, i) ==
  IF i > Len(text) THEN JNull
  ELSE IF MatchesAt(text, i, YmlMarker)
          /\ SkipSpace(text, i + Len(YmlMarker)) <= Len(text)
    THEN LET from == SkipSpace(text, i + Len(YmlMarker))
         IN  JString(SubSeq(text, from, SkipNonSpace(text, from) - 1))
  ELSE MatchYml(text, i + 1)

readToken_ghYml(content) == MatchYml(content.s, 1)

\* the extractor _resolveToken passes for awaited probe i
ExtractFn(i, content) ==
  IF i = 2 THEN readToken_ghYml(content)
  ELSE IF i = 3 THEN readToken_hostsJson(content)
  ELSE IF i = 4 THEN readToken_appsJson(content)
  ELSE readToken_oauthJson(content)

\* `token ?? null` as _resolveToken sees it
AsToken(v) == IF Nullish(v) THEN None ELSE Some(v.s)

TokenField(field, s) == JObject(<<JEntry(field, JString(s))>>)

\* contents of ~/.config/gh/hosts.yml
YmlTexts ==
  { <<>>,
    <<"u", "s", "e", "r", ":", " ", "x", "\n">>,
    YmlMarker,
    YmlMarker \o <<" ", "\n">>,
    YmlMarker \o <<"\n", "u", ":", " ", "x", "\n">>,
    YmlMarker \o <<" ">> \o FileToken \o <<"\n">>,
    <<" ">> \o YmlMarker \o <<"\n">> \o YmlMarker \o FileToken \o <<" ", "x">> }

\* contents of ~/.config/github-copilot/hosts.json
HostsDocuments ==
  { JNull, JNumber, JString(<<"x">>), JObject(<<>>), JArray(<<JNull>>),
    JObject(<<JEntry("github.com", JNull)>>),
    JObject(<<JEntry("github.com", JNumber)>>),
    JObject(<<JEntry("github.com", JObject(<<>>))>>),
    JObject(<<JEntry("github.com", JObject(<<JEntry("oauth_token", JNull)>>))>>),
    JObject(<<JEntry("github.com", TokenField("oauth_token", <<>>))>>),
    JObject(<<JEntry("github.com", TokenField("oauth_token", <<" ">>))>>),
    JObject(<<JEntry("example.com", TokenField("oauth_token", <<"x">>))>>),
    JObject(<<JEntry("example.com", TokenField("oauth_token", <<"x">>)),
              JEntry("github.com", JObject(<<>>))>>),
    JObject(<<JEntry("example.com", TokenField("oauth_token", <<"x">>)),
              JEntry("github.com", TokenField("oauth_token", FileToken))>>) }

\* contents of ~/.config/github-copilot/apps.json
AppsDocuments ==
  { JNull, JNumber, JString(<<"x">>), JObject(<<>>), JArray(<<JNull>>),
    JObject(<<JEntry("github.com:app", JNull)>>),
    JObject(<<JEntry("github.com:app", JNumber)>>),
    JObject(<<JEntry("github.com:app", JObject(<<>>))>>),
    JObject(<<JEntry("github.com:app", TokenField("oauth_token", <<>>))>>),
    JObject(<<JEntry("github.com:app", TokenField("oauth_token", <<" ">>))>>),
    JObject(<<JEntry("github.com:old", TokenField("oauth_token", <<>>)),
              JEntry("github.com:app", TokenField("oauth_token", FileToken))>>),
    JObject(<<JEntry("a", JObject(<<>>)),
              JEntry("b", TokenField("oauth_token", FileToken)),
              JEntry("c", TokenField("oauth_token", <<"x">>))>>) }

\* contents of ~/.config/github-copilot/oauth.json
OauthDocuments ==
  { JNull, JNumber, JString(<<"x">>), JObject(<<>>),
    JObject(<<JEntry("https://github.com/login/oauth", JNull)>>),
    JObject(<<JEntry("https://github.com/login/oauth", TokenField("accessToken", FileToken))>>),
    JObject(<<JEntry("https://github.com/login/oauth", JArray(<<>>))>>),
    JObject(<<JEntry("https://github.com/login/oauth", JArray(<<JNull, JNumber>>))>>),
    JObject(<<JEntry("https://github.com/login/oauth", JArray(<<JObject(<<>>)>>))>>),
    JObject(<<JEntry("https://github.com/login/oauth",
                     JArray(<<TokenField("accessToken", <<" ">>)>>))>>),
    JObject(<<JEntry("other", JNumber),
              JEntry("https://github.com/login/oauth",
                     JArray(<<TokenField("accessToken", <<>>),
                              TokenField("accessToken", FileToken)>>))>>),
    JObject(<<JEntry("a", JArray(<<JObject(<<>>), TokenField("accessToken", FileToken),
                                   TokenField("accessToken", <<"x">>)>>)),
              JEntry("b", JArray(<<TokenField("accessToken", <<"y">>)>>))>>),
    JObject(<<JEntry("a", JArray(<<JObject(<<>>)>>)),
              JEntry("b", JArray(<<JNull, TokenField("accessToken", FileToken)>>)),
              JEntry("c", JArray(<<TokenField("accessToken", <<"x">>)>>))>>) }

\* what the file of awaited probe i can hold once decoded (and, for the JSON
\* files, parsed)
FileContents(i) ==
  IF i = 2 THEN { JString(t) : t \in YmlTexts }
  ELSE IF i = 3 THEN HostsDocuments
  ELSE IF i = 4 THEN AppsDocuments
  ELSE OauthDocuments

\* outcomes of awaited probe i with the content the extractor is given:
\* load_contents_finish throws (the file is missing or unreadable),
\* JSON.parse throws (the JSON files only), or the extractor runs
ContentOutcomes(i) ==
  { [loaded |-> FALSE, parsed |-> FALSE, extracted |-> None, content |-> JUndefined] }
  \cup (IF i = 2 THEN {}
        ELSE { [loaded |-> TRUE, parsed |-> FALSE, extracted |-> None,
                content |-> JUndefined] })
  \cup { [loaded |-> TRUE, parsed |-> TRUE,
          extracted |-> AsToken(ExtractFn(i, c)), content |-> c] :
         c \in FileContents(i) }

\* values of the `github-token` settings key
ManualSettings == { <<>>, <<" ">> \o ManualToken \o <<"\n">> }

\* values of the `refresh-interval` settings key
IntervalSettings == {0, 30}

\* wall-clock readings of `new Date()`
Clock == { [hours |-> 9, minutes |-> 5], [hours |-> 17, minutes |-> 30] }

\* ------------------------------------------------------------------------
\* Usage payloads (the parsed response body)
\* ------------------------------------------------------------------------

Snapshot(snake, camel) == [percent_remaining |-> snake, percentRemaining |-> camel]

Snapshots(premSnake, premCamel, chat) ==
  [premium_interactions |-> premSnake, premiumInteractions |-> premCamel, chat |-> chat]

Payload(planSnake, planCamel, snapsSnake, snapsCamel) ==
  [copilot_plan |-> planSnake, copilotPlan |-> planCamel,
   quota_snapshots |-> snapsSnake, quotaSnapshots |-> snapsCamel]

PlanPro == <<"p","r","o">>

PlanFree == <<"f","r","e","e">>

PlanCopilotFree == <<"C","o","p","i","l","o","t","_","F","r","e","e">>

\* {}
EmptyPayload == Payload(None, None, None, None)

\* {"copilot_plan":"pro","quota_snapshots":{"premium_interactions":{"percent_remaining":80}}}
ProPayload ==
  Payload(Some(PlanPro), None,
          Some(Snapshots(Some(Snapshot(Some(800), None)), None, None)), None)

\* a free plan with both quotas metered, premium nearly exhausted
FreePayload ==
  Payload(Some(PlanFree), None,
          Some(Snapshots(Some(Snapshot(Some(55), None)),
                         None,
                         Some(Snapshot(Some(1000), None)))), None)

\* {"copilot_plan":""}
BlankPlanPayload == Payload(Some(<<>>), None, None, None)

\* a payload whose percentages lie outside 0..100: premium 120 % remaining,
\* chat -20 % remaining
OutOfRangePayload ==
  Payload(None, Some(PlanCopilotFree), None,
          Some(Snapshots(None, Some(Snapshot(None, Some(1200))),
                         Some(Snapshot(Some(-200), None)))))

\* payloads the request of a refresh can come back with
PipelinePayloads ==
  { EmptyPayload, BlankPlanPayload, ProPayload, FreePayload, OutOfRangePayload }

\* bodies of a response.  A body of no bytes reaches the callback either as
\* null ("empty") or as a Uint8Array of length 0 ("zero_length"), depending
\* on how the binding converts the empty GLib.Bytes.
Bodies ==
  { [kind |-> "empty",       data |-> EmptyPayload],
    [kind |-> "zero_length", data |-> EmptyPayload],
    [kind |-> "invalid",     data |-> EmptyPayload],
    [kind |-> "json_null", data |-> EmptyPayload] }
  \cup { [kind |-> "object", data |-> d] : d \in PipelinePayloads }

Statuses == {200, 401, 403, 500}

\* what send_and_read_finish delivers: a transport failure (it throws) or a
\* response with a status code and a body
HttpOutcomes ==
  { [kind |-> "transport", status |-> 0, body |-> CHOOSE b \in Bodies : b.kind = "empty"] }
  \cup { [kind |-> "response", status |-> st, body |-> b] : st \in Statuses, b \in Bodies }

\* the failure delivered for a request cancelled by Soup.Session.abort()
CancelledOutcome ==
  [kind |-> "cancelled", status |-> 0, body |-> CHOOSE b \in Bodies : b.kind = "empty"]

\* ------------------------------------------------------------------------
\* State
\* ------------------------------------------------------------------------

VARIABLES
  ind,                \* _menuState and the widgets of the indicator
  destroyed,          \* _destroyed
  timerId,            \* _timerId: None or Some(source id)
  settingsChangedId,  \* _settingsChangedId: None or Some(handler id)
  timerSource,        \* the GLib timeout source of _startTimer exists
  handlerConnected,   \* the changed::github-token handler is connected
  settings,           \* the Gio.Settings keys github-token, refresh-interval
  rf                  \* the refresh operations (_resolveToken runs) in flight

\* the state of the indicator of extension.js, the JavaScript predecessor of
\* the TypeScript indicator
VARIABLES
  jsInd,               \* _menuState and the widgets
  jsSession,           \* _session: None once destroy() has run
  jsTimerId,           \* _timerId: None or Some(source id)
  jsSettingsChangedId, \* _settingsChangedId: None or Some(handler id)
  jsDestroyed,         \* destroy() has run
  jsSettings,          \* the Gio.Settings keys
  jsRf                 \* the refresh operations in flight

jsVars ==
  <<jsInd, jsSession, jsTimerId, jsSettingsChangedId, jsDestroyed, jsSettings, jsRf>>

tsVars ==
  <<ind, destroyed, timerId, settingsChangedId, timerSource, handlerConnected,
    settings, rf>>

vars == <<tsVars, jsVars>>

\* only one of the two indicators is loaded in a behaviour; the variables of
\* the other one hold None throughout
JsNotLoaded ==
  /\ jsInd = None
  /\ jsSession = None
  /\ jsTimerId = None
  /\ jsSettingsChangedId = None
  /\ jsDestroyed = None
  /\ jsSettings = None
  /\ jsRf = None

TsNotLoaded ==
  /\ ind = None
  /\ destroyed = None
  /\ timerId = None
  /\ settingsChangedId = None
  /\ timerSource = None
  /\ handlerConnected = None
  /\ settings = None
  /\ rf = None

Refreshes == 1..MaxRefresh

\* ------------------------------------------------------------------------
\* Token resolution
\* ------------------------------------------------------------------------

\* the awaited probes of _resolveToken, in the order it runs them
ProbeOrder ==
  <<"gh-subprocess", "gh-hosts.yml", "copilot-hosts.json", "copilot-apps.json",
    "copilot-oauth.json">>

ManualProbeName == "manual-setting"

\* the callback of communicate_utf8_async: stdout?.trim() || null, null when
\* communicate_utf8_finish throws
RunSubprocessToken(o) ==
  IF ~o.finished THEN None
  ELSE OrNull(IF o.stdout = None THEN None ELSE Some(Trim(o.stdout[1])))

\* the callback of load_contents_async: extractFn(...) ?? null, null when
\* loading, decoding, parsing or the extractor throws
ReadFileToken(o) ==
  IF ~o.loaded \/ ~o.parsed THEN None ELSE o.extracted

\* this._settings.get_string("github-token").trim()
ManualProbe(setting) == Some(Trim(setting))

\* AfterProbe testing `token !== null` instead of the token's truthiness
AfterProbe_NotNull(destroyedFlag, token) ==
  IF destroyedFlag THEN "return"
  ELSE IF token # None THEN "fetch"
  ELSE "continue"

\* AfterProbe without the `if (this._destroyed) return;` statement
AfterProbe_NoTeardownCheck(destroyedFlag, token) ==
  IF Truthy(token) THEN "fetch" ELSE "continue"

\* the two statements after each await:
\*   if (this._destroyed) return; if (token) return this._fetchUsage(token);
AfterProbe(destroyedFlag, token) ==
  IF destroyedFlag THEN "return"
  ELSE IF Truthy(token) THEN "fetch"
  ELSE "continue"

\* a refresh that has not been started.  Where a specification follows them,
\* inputs holds the awaited probe whose callback ran last with what that
\* callback was given, and base holds the widgets as they were when
\* _refreshUsage was called
IdleRefresh ==
  [pc |-> "idle", probe |-> 0, ran |-> <<>>, results |-> <<>>, token |-> None,
   requests |-> 0, aborted |-> FALSE, outcome |-> "none", response |-> None,
   uiCalls |-> 0, uiAfterDestroy |-> 0, inputs |-> <<>>, base |-> None]

\* `return this._fetchUsage(token)`: the request is sent and _resolveToken
\* returns
FetchUsage(rec, token) ==
  [rec EXCEPT !.pc = "resolved", !.probe = 0, !.token = token, !.requests = @ + 1,
              !.outcome = "fetching"]

\* a call of one of _showSetupState, _showNetworkError, _updateUsageDisplay
UiCall(rec, endpc, destroyedFlag, outcome) ==
  [rec EXCEPT !.pc = endpc, !.probe = 0, !.outcome = outcome,
              !.uiCalls = @ + 1,
              !.uiAfterDestroy = @ + (IF destroyedFlag THEN 1 ELSE 0)]

\* ResolveManual without the `if (token)` test: it always fetches
ResolveManual_AlwaysFetch(rec, w, destroyedFlag, setting) ==
  LET token == ManualProbe(setting)
  IN  [rf  |-> FetchUsage([rec EXCEPT !.ran = Append(@, ManualProbeName),
                                      !.results = Append(@, token)], token),
       ind |-> w]

\* step 6 of _resolveToken and its end: the manual token, else the setup UI
ResolveManual(rec, w, destroyedFlag, setting) ==
  LET token == ManualProbe(setting)
      rec1  == [rec EXCEPT !.ran = Append(@, ManualProbeName),
                           !.results = Append(@, token)]
  IN  IF Truthy(token)
        THEN [rf |-> FetchUsage(rec1, token), ind |-> w]
        ELSE [rf  |-> UiCall(rec1, "resolved", destroyedFlag, "no_credentials"),
              ind |-> ShowSetupState(w, "GitHub Token Required",
                        "No credentials found. Open Settings to add your token.")]

\* ResolveFrom that gives up at the first probe without a token instead of
\* going on to the next probe
ResolveFrom_NoFallThrough(rec, w, i, token, destroyedFlag, setting) ==
  LET rec1     == [rec EXCEPT !.results = Append(@, token)]
      decision == AfterProbe(destroyedFlag, token)
  IN  IF decision = "return"
        THEN [rf  |-> [rec1 EXCEPT !.pc = "resolved", !.probe = 0, !.outcome = "torn_down"],
              ind |-> w]
      ELSE IF decision = "fetch"
        THEN [rf |-> FetchUsage(rec1, token), ind |-> w]
      ELSE ResolveManual(rec1, w, destroyedFlag, setting)

\* _resolveToken from the point where awaited probe i has resolved to token
ResolveFrom(rec, w, i, token, destroyedFlag, setting) ==
  LET rec1     == [rec EXCEPT !.results = Append(@, token)]
      decision == AfterProbe(destroyedFlag, token)
  IN  IF decision = "return"
        THEN [rf  |-> [rec1 EXCEPT !.pc = "resolved", !.probe = 0, !.outcome = "torn_down"],
              ind |-> w]
      ELSE IF decision = "fetch"
        THEN [rf |-> FetchUsage(rec1, token), ind |-> w]
      ELSE IF i < Len(ProbeOrder)
        THEN [rf  |-> [rec1 EXCEPT !.pc = "probe", !.probe = i + 1,
                                   !.ran = Append(@, ProbeOrder[i + 1])],
              ind |-> w]
      ELSE ResolveManual(rec1, w, destroyedFlag, setting)

\* _refreshUsage: _resolveToken up to its first suspension.  When
\* Gio.Subprocess.new throws, the probe has resolved to null already and the
\* resolver goes on to the first file probe without returning to the main loop.
StartRefresh(w, spawned, destroyedFlag, setting) ==
  LET rec == [IdleRefresh EXCEPT !.pc = "probe", !.probe = 1,
                                 !.ran = <<ProbeOrder[1]>>]
  IN  IF spawned
        THEN [rf |-> rec, ind |-> w]
        ELSE ResolveFrom(rec, w, 1, None, destroyedFlag, setting)

\* ------------------------------------------------------------------------
\* The usage request
\* ------------------------------------------------------------------------

\* err.message of what the callback of send_and_read_async catches
ErrorMessage(resp) ==
  IF resp.kind = "cancelled" THEN "Operation was cancelled"
  ELSE IF resp.kind = "transport" THEN "Could not connect"
  ELSE IF resp.body.kind = "zero_length" THEN "JSON.parse: unexpected end of data"
  ELSE IF resp.body.kind = "invalid" THEN "JSON.parse: unexpected character"
  ELSE IF resp.body.kind = "json_null" THEN "data is null"
  ELSE IF IsNumericString(PctRemaining(DataPremium(resp.body.data)))
    THEN "premR.toFixed is not a function"
  ELSE "chatR.toFixed is not a function"

\* the classification the callback of send_and_read_async makes
FetchOutcome(resp) ==
  IF resp.kind # "response" THEN "transport_error"
  ELSE IF resp.status = 401 \/ resp.status = 403 THEN "auth_rejected"
  ELSE IF resp.status # 200 THEN "http_error"
  ELSE IF resp.body.kind = "empty" THEN "empty_body"
  ELSE IF resp.body.kind \in {"zero_length", "invalid", "json_null"} THEN "decode_error"
  ELSE IF NoUsageFields(resp.body.data) THEN "no_usage_data"
  ELSE IF UpdateUsageDisplayThrows(resp.body.data) THEN "display_error"
  ELSE "success"

\* the readings `new Date()` can give while the callback handles resp: only
\* _updateUsageDisplay, past its early return, reads the clock
ClockRead(resp) ==
  IF FetchOutcome(resp) = "success" THEN Clock ELSE {CHOOSE now \in Clock : TRUE}

\* `this._updateUsageDisplay(data)` inside the try block of the callback: an
\* error it throws is caught and shown by _showNetworkError
TryUpdateUsageDisplay(w, resp, now) ==
  IF UpdateUsageDisplayThrows(resp.body.data)
    THEN ShowNetworkError(UpdateUsageDisplayUntilThrow(w, resp.body.data),
                          ErrorMessage(resp))
    ELSE UpdateUsageDisplay(w, resp.body.data, now)

\* FetchCallback treating only 401 as a rejected token
FetchCallback_Only401(w, sourceSession, resp, now) ==
  IF sourceSession = None THEN w
  ELSE IF resp.kind # "response" THEN ShowNetworkError(w, ErrorMessage(resp))
  ELSE IF resp.status = 401
    THEN ShowSetupState(w, "Token Invalid or Expired",
           "The stored token was rejected. Update it in Settings.")
  ELSE IF resp.status # 200
    THEN ShowNetworkError(w, "HTTP " \o ToString(resp.status))
  ELSE IF resp.body.kind = "empty"
    THEN ShowNetworkError(w, "Empty response from API")
  ELSE IF resp.body.kind \in {"zero_length", "invalid", "json_null"}
    THEN ShowNetworkError(w, ErrorMessage(resp))
  ELSE TryUpdateUsageDisplay(w, resp, now)

\* FetchCallback that parses a body of no bytes as `{}`
FetchCallback_EmptyAsObject(w, sourceSession, resp, now) ==
  IF sourceSession = None THEN w
  ELSE IF resp.kind # "response" THEN ShowNetworkError(w, ErrorMessage(resp))
  ELSE IF resp.status = 401 \/ resp.status = 403
    THEN ShowSetupState(w, "Token Invalid or Expired",
           "The stored token was rejected. Update it in Settings.")
  ELSE IF resp.status # 200
    THEN ShowNetworkError(w, "HTTP " \o ToString(resp.status))
  ELSE IF resp.body.kind \in {"empty", "zero_length"}
    THEN UpdateUsageDisplay(w, EmptyPayload, now)
  ELSE IF resp.body.kind \in {"invalid", "json_null"}
    THEN ShowNetworkError(w, ErrorMessage(resp))
  ELSE TryUpdateUsageDisplay(w, resp, now)

\* the callback of send_and_read_async; sourceSession is the session the
\* request was sent on
FetchCallback(w, sourceSession, resp, now) ==
  IF sourceSession = None THEN w
  ELSE IF resp.kind # "response" THEN ShowNetworkError(w, ErrorMessage(resp))
  ELSE IF resp.status = 401 \/ resp.status = 403
    THEN ShowSetupState(w, "Token Invalid or Expired",
           "The stored token was rejected. Update it in Settings.")
  ELSE IF resp.status # 200
    THEN ShowNetworkError(w, "HTTP " \o ToString(resp.status))
  ELSE IF resp.body.kind = "empty"
    THEN ShowNetworkError(w, "Empty response from API")
  ELSE IF resp.body.kind \in {"zero_length", "invalid", "json_null"}
    THEN ShowNetworkError(w, ErrorMessage(resp))
  ELSE TryUpdateUsageDisplay(w, resp, now)

\* ------------------------------------------------------------------------
\* Construction
\* ------------------------------------------------------------------------

\* the source object handed to the callback of send_and_read_async
SessionObject == Some("session")

\* enable(): `new CopilotUsageIndicator(...)` runs _init (which builds the
\* menu, connects the settings handler, arms the timer and starts the first
\* refresh) and then the class-field initialisers, which assign
\* _menuState = null, _timerId = null, _settingsChangedId = null and
\* _destroyed = false.
InitWith(tokens, intervals, spawns, slots) ==
  \E token \in tokens, interval \in intervals, spawned \in spawns :
    LET first == StartRefresh(BuiltMenu, spawned, FALSE, token)
    IN  /\ settings = [github_token |-> token, refresh_interval |-> interval]
        /\ ind = [first.ind EXCEPT !.menuState = "null"]
        /\ destroyed = FALSE
        /\ timerId = None
        /\ settingsChangedId = None
        /\ timerSource = (interval > 0)
        /\ handlerConnected = TRUE
        /\ rf = [r \in slots |-> IF r = 1 THEN first.rf ELSE IdleRefresh]
        /\ JsNotLoaded

Init == InitWith(ManualSettings, IntervalSettings, BOOLEAN, Refreshes)

\* ------------------------------------------------------------------------
\* Operations
\* ------------------------------------------------------------------------

\* the main loop is free to dispatch the next event: no run of _resolveToken
\* (pc = "resolved") and no request callback (pc = "done") has just returned
Dispatching == \A q \in DOMAIN rf : rf[q].pc \notin {"resolved", "done"}

\* the slot the next _refreshUsage call is followed in
FreeSlot(r) ==
  /\ Dispatching
  /\ rf[r].pc = "idle"
  /\ \A q \in DOMAIN rf : q < r => rf[q].pc # "idle"

\* a call of _refreshUsage; spawns tells whether Gio.Subprocess.new can
\* succeed and whether it can throw
RefreshWith(r, spawns, followed) ==
  \E spawned \in spawns :
    LET started == StartRefresh(ind, spawned, destroyed, settings.github_token)
    IN  /\ rf' = [rf EXCEPT ![r] =
                    IF followed THEN [started.rf EXCEPT !.base = Some(ind)]
                    ELSE started.rf]
        /\ ind' = started.ind

Refresh(r) == RefreshWith(r, BOOLEAN, FALSE)

\* the timeout source of _startTimer fires
TimerTick(r) ==
  /\ timerSource
  /\ FreeSlot(r)
  /\ Refresh(r)
  /\ UNCHANGED <<destroyed, timerId, settingsChangedId, timerSource,
                 handlerConnected, settings>>
  /\ UNCHANGED jsVars

\* the popup menu is opened (open-state-changed with open = true)
MenuOpened(r) ==
  /\ ~destroyed
  /\ FreeSlot(r)
  /\ Refresh(r)
  /\ UNCHANGED <<destroyed, timerId, settingsChangedId, timerSource,
                 handlerConnected, settings>>
  /\ UNCHANGED jsVars

\* the inline refresh button of the footer is clicked
RefreshClicked(r) ==
  /\ ~destroyed
  /\ ind.footerItem
  /\ FreeSlot(r)
  /\ Refresh(r)
  /\ UNCHANGED <<destroyed, timerId, settingsChangedId, timerSource,
                 handlerConnected, settings>>
  /\ UNCHANGED jsVars

\* the github-token key is written (the preferences window stores the
\* trimmed entry text; dconf can store any string); a connected
\* changed::github-token handler calls _refreshUsage
TokenSettingChanged(r) ==
  /\ FreeSlot(r)
  /\ \E token \in ManualSettings :
       /\ token # settings.github_token
       /\ settings' = [settings EXCEPT !.github_token = token]
       /\ IF handlerConnected
            THEN \E spawned \in BOOLEAN :
                   LET started == StartRefresh(ind, spawned, destroyed, token)
                   IN  /\ rf' = [rf EXCEPT ![r] = started.rf]
                       /\ ind' = started.ind
            ELSE UNCHANGED <<rf, ind>>
  /\ UNCHANGED <<destroyed, timerId, settingsChangedId, timerSource,
                 handlerConnected>>
  /\ UNCHANGED jsVars

\* the callback of communicate_utf8_async runs with one of the given
\* outcomes and _resolveToken resumes
SubprocessRuns(r, outcomes, followed) ==
  /\ Dispatching
  /\ rf[r].pc = "probe"
  /\ rf[r].probe = 1
  /\ \E o \in outcomes :
       LET next == ResolveFrom(rf[r], ind, 1, RunSubprocessToken(o), destroyed,
                               settings.github_token)
       IN  /\ rf' = [rf EXCEPT ![r] =
                       IF followed
                         THEN [next.rf EXCEPT !.inputs = <<[probe |-> rf[r].probe, given |-> o]>>]
                         ELSE next.rf]
           /\ ind' = next.ind

SubprocessCompletes(r) ==
  /\ SubprocessRuns(r, SubprocessOutcomes, FALSE)
  /\ UNCHANGED <<destroyed, timerId, settingsChangedId, timerSource,
                 handlerConnected, settings>>
  /\ UNCHANGED jsVars

\* the callback of load_contents_async runs with one of the outcomes given
\* for the probe (outcomes maps each file probe to a set of them) and
\* _resolveToken resumes
FileReadRuns(r, outcomes, followed) ==
  /\ Dispatching
  /\ rf[r].pc = "probe"
  /\ rf[r].probe > 1
  /\ \E o \in outcomes[rf[r].probe] :
       LET next == ResolveFrom(rf[r], ind, rf[r].probe, ReadFileToken(o), destroyed,
                               settings.github_token)
       IN  /\ rf' = [rf EXCEPT ![r] =
                       IF followed
                         THEN [next.rf EXCEPT !.inputs = <<[probe |-> rf[r].probe, given |-> o]>>]
                         ELSE next.rf]
           /\ ind' = next.ind

FileReadCompletes(r) ==
  /\ FileReadRuns(r, [i \in 2..Len(ProbeOrder) |-> FileOutcomes(i)], FALSE)
  /\ UNCHANGED <<destroyed, timerId, settingsChangedId, timerSource,
                 handlerConnected, settings>>
  /\ UNCHANGED jsVars

\* CallbackRuns that drops the response of a refresh when the request of
\* another refresh is still in flight
CallbackRuns_DropsOverlapped(r, outcomes) ==
  /\ Dispatching
  /\ rf[r].pc = "http"
  /\ \E resp \in (IF rf[r].aborted THEN {CancelledOutcome} ELSE outcomes) :
       \E now \in ClockRead(resp) :
         /\ ind' = IF \E q \in DOMAIN rf : q # r /\ rf[q].pc = "http"
                     THEN ind
                     ELSE FetchCallback(ind, SessionObject, resp, now)
         /\ rf' = [rf EXCEPT ![r] =
                     [UiCall(@, "done", destroyed, FetchOutcome(resp))
                        EXCEPT !.response = Some(resp)]]

\* CallbackRuns that sends the request again when the token is rejected
CallbackRuns_RetryRejected(r, outcomes) ==
  /\ Dispatching
  /\ rf[r].pc = "http"
  /\ \E resp \in (IF rf[r].aborted THEN {CancelledOutcome} ELSE outcomes) :
       \E now \in ClockRead(resp) :
         IF FetchOutcome(resp) = "auth_rejected"
           THEN /\ ind' = ind
                /\ rf' = [rf EXCEPT ![r].requests = @ + 1]
           ELSE /\ ind' = FetchCallback(ind, SessionObject, resp, now)
                /\ rf' = [rf EXCEPT ![r] =
                            [UiCall(@, "done", destroyed, FetchOutcome(resp))
                               EXCEPT !.response = Some(resp)]]

\* the callback of send_and_read_async runs: with one of the given outcomes,
\* or with the cancellation error when the session was aborted meanwhile
CallbackRuns(r, outcomes) ==
  /\ Dispatching
  /\ rf[r].pc = "http"
  /\ \E resp \in (IF rf[r].aborted THEN {CancelledOutcome} ELSE outcomes) :
       \E now \in ClockRead(resp) :
         /\ ind' = FetchCallback(ind, SessionObject, resp, now)
         /\ rf' = [rf EXCEPT ![r] =
                     [(IF FetchOutcome(resp) = "display_error"
                         THEN UiCall(UiCall(@, "done", destroyed, "display_error"),
                                     "done", destroyed, "display_error")
                         ELSE UiCall(@, "done", destroyed, FetchOutcome(resp)))
                        EXCEPT !.response = Some(resp)]]

RequestCompletes(r) ==
  /\ CallbackRuns(r, HttpOutcomes)
  /\ UNCHANGED <<destroyed, timerId, settingsChangedId, timerSource,
                 handlerConnected, settings>>
  /\ UNCHANGED jsVars

\* _stopTimer
StopTimer ==
  IF timerId # None
    THEN timerSource' = FALSE /\ timerId' = None
    ELSE UNCHANGED <<timerSource, timerId>>

\* destroy(), called by disable()
Destroy ==
  /\ Dispatching
  /\ ~destroyed
  /\ destroyed' = TRUE
  /\ StopTimer
  /\ IF settingsChangedId # None
       THEN handlerConnected' = FALSE /\ settingsChangedId' = None
       ELSE UNCHANGED <<handlerConnected, settingsChangedId>>
  /\ rf' = [r \in DOMAIN rf |->
              IF rf[r].pc = "http" THEN [rf[r] EXCEPT !.aborted = TRUE] ELSE rf[r]]
  /\ UNCHANGED <<ind, settings>>
  /\ UNCHANGED jsVars

\* what is left of a refresh once _resolveToken has returned: the request it
\* sent, if any, with the token in its Authorization header
RequestInFlight(rec) ==
  [IdleRefresh EXCEPT !.pc = "http", !.token = rec.token, !.requests = rec.requests,
                      !.outcome = "fetching", !.base = rec.base]

\* control returns to the main loop: the locals of a returned _resolveToken
\* are gone (its request stays in flight), and nothing is left of a refresh
\* whose request callback has returned
Settle(r) ==
  /\ rf[r].pc \in {"resolved", "done"}
  /\ rf' = [rf EXCEPT ![r] = IF @.pc = "resolved" /\ @.outcome = "fetching"
                               THEN RequestInFlight(@)
                               ELSE IdleRefresh]
  /\ UNCHANGED <<ind, destroyed, timerId, settingsChangedId, timerSource,
                 handlerConnected, settings>>
  /\ UNCHANGED jsVars

Next ==
  \/ \E r \in Refreshes : TimerTick(r)
  \/ \E r \in Refreshes : MenuOpened(r)
  \/ \E r \in Refreshes : RefreshClicked(r)
  \/ \E r \in Refreshes : TokenSettingChanged(r)
  \/ \E r \in Refreshes : SubprocessCompletes(r)
  \/ \E r \in Refreshes : FileReadCompletes(r)
  \/ \E r \in Refreshes : RequestCompletes(r)
  \/ \E r \in Refreshes : Settle(r)
  \/ Destroy

Spec == Init /\ [][Next]_vars

\* ------------------------------------------------------------------------
\* The display under the payloads the API can deliver
\* ------------------------------------------------------------------------

PlanBusiness == <<"b","u","s","i","n","e","s","s">>

PlanFreeCapital == <<"F","r","e","e">>

PlanCopilotFreeHyphen == <<"c","o","p","i","l","o","t","-","f","r","e","e">>

PlanCopilotFreeUpper == <<"C","O","P","I","L","O","T","_","F","R","E","E">>

PlanCopilotFreeSpace == <<"c","o","p","i","l","o","t"," ","f","r","e","e">>

DisplayPlans ==
  { PlanPro, PlanBusiness, PlanFree, PlanFreeCapital, PlanCopilotFreeHyphen,
    PlanCopilotFreeUpper, PlanCopilotFreeSpace }

\* remaining percentages (tenths) at the ends of the range and on both sides
\* of every level band of the bar
DisplayPercents == {0, 100, 101, 300, 301, 600, 601, 1000}

\* a snake_case payload with the given plan and remaining percentages (each
\* an optional value; a snapshot is left out when its percentage is "none",
\* and present without the percentage field when it is None)
SnakePayload(plan, prem, chat) ==
  Payload(plan, None,
          Some(Snapshots(IF prem = "none" THEN None ELSE Some(Snapshot(prem, None)),
                         None,
                         IF chat = "none" THEN None ELSE Some(Snapshot(chat, None)))),
          None)

\* the same payload in camelCase
CamelPayload(plan, prem, chat) ==
  Payload(None, plan, None,
          Some(Snapshots(None,
                         IF prem = "none" THEN None ELSE Some(Snapshot(None, prem)),
                         IF chat = "none" THEN None ELSE Some(Snapshot(None, chat)))))

\* payloads that give a field under both spellings with different values
MixedPayloads ==
  { Payload(Some(PlanPro), Some(PlanFree),
            Some(Snapshots(Some(Snapshot(Some(300), Some(601))),
                           Some(Snapshot(Some(1000), None)),
                           None)),
            Some(Snapshots(None, Some(Snapshot(None, Some(0))),
                           Some(Snapshot(None, Some(0)))))),
    Payload(None, Some(PlanFree),
            Some(Snapshots(None, Some(Snapshot(None, Some(601))), None)),
            Some(Snapshots(Some(Snapshot(Some(0), None)), None, None))) }

\* payloads with a remaining percentage given as a string
StringPercentPayloads ==
  { SnakePayload(Some(PlanPro), NumericString(800), "none"),
    SnakePayload(Some(PlanFree), Some(300), NumericString(601)) }

DisplayPayloads ==
  { SnakePayload(Some(p), Some(800), "none") : p \in DisplayPlans }
  \cup { SnakePayload(None, Some(800), "none") }
  \cup { SnakePayload(Some(PlanPro), Some(r), "none") : r \in DisplayPercents }
  \cup { SnakePayload(Some(PlanFree), prem, chat) :
           prem \in {"none", None, Some(0)}, chat \in {"none", None, Some(0), Some(1000)} }
  \cup { CamelPayload(Some(PlanFreeCapital), prem, chat) :
           prem \in {None, Some(101)}, chat \in {"none", Some(1000)} }
  \cup MixedPayloads
  \cup StringPercentPayloads
  \cup { EmptyPayload, BlankPlanPayload, OutOfRangePayload }

\* what the request of a refresh can come back with in SpecDisplay
DisplayOutcomes ==
  { [kind |-> "response", status |-> 200, body |-> [kind |-> "object", data |-> d]] :
      d \in DisplayPayloads }
  \cup { [kind |-> "response", status |-> st, body |-> CHOOSE b \in Bodies : b.kind = "empty"] :
           st \in {200, 401, 500} }
  \cup { [kind |-> "response", status |-> 200, body |-> CHOOSE b \in Bodies : b.kind = "invalid"],
         [kind |-> "transport", status |-> 0, body |-> CHOOSE b \in Bodies : b.kind = "empty"] }

\* the indicator of an installation without a manual token where
\* `gh auth token` prints a token or fails, and no credential file exists
DisplayInit == InitWith({<<>>}, {0}, {TRUE}, Refreshes)

\* load_contents_finish throws: the file does not exist
MissingFile == { [loaded |-> FALSE, parsed |-> FALSE, extracted |-> None] }

DisplayMenuOpened ==
  /\ ~destroyed
  /\ FreeSlot(1)
  /\ RefreshWith(1, {TRUE}, FALSE)
  /\ UNCHANGED <<destroyed, timerId, settingsChangedId, timerSource,
                 handlerConnected, settings>>
  /\ UNCHANGED jsVars

DisplayTokenFound ==
  /\ SubprocessRuns(1, {o \in SubprocessOutcomes : Truthy(RunSubprocessToken(o))}, FALSE)
  /\ UNCHANGED <<destroyed, timerId, settingsChangedId, timerSource,
                 handlerConnected, settings>>
  /\ UNCHANGED jsVars

DisplayTokenMissing ==
  /\ SubprocessRuns(1, {o \in SubprocessOutcomes : ~o.finished}, FALSE)
  /\ UNCHANGED <<destroyed, timerId, settingsChangedId, timerSource,
                 handlerConnected, settings>>
  /\ UNCHANGED jsVars

DisplayFileMissing ==
  /\ FileReadRuns(1, [i \in 2..Len(ProbeOrder) |-> MissingFile], FALSE)
  /\ UNCHANGED <<destroyed, timerId, settingsChangedId, timerSource,
                 handlerConnected, settings>>
  /\ UNCHANGED jsVars

DisplayRequestCompletes ==
  /\ CallbackRuns(1, DisplayOutcomes)
  /\ UNCHANGED <<destroyed, timerId, settingsChangedId, timerSource,
                 handlerConnected, settings>>
  /\ UNCHANGED jsVars

DisplaySettle == Settle(1)

DisplayNext ==
  \/ DisplayMenuOpened
  \/ DisplayTokenFound
  \/ DisplayTokenMissing
  \/ DisplayFileMissing
  \/ DisplayRequestCompletes
  \/ DisplaySettle

SpecDisplay == DisplayInit /\ [][DisplayNext]_vars

\* ------------------------------------------------------------------------
\* The token probes: one refresh at a time over the contents the credential
\* files can have
\* ------------------------------------------------------------------------

\* values of the `github-token` settings key, a blank one among them
ProbeSettings == ManualSettings \cup { <<" ", "\n">> }

\* answers to the usage request
ProbeHttpOutcomes ==
  { [kind |-> "response", status |-> 401, body |-> CHOOSE b \in Bodies : b.kind = "empty"],
    [kind |-> "response", status |-> 200, body |-> [kind |-> "object", data |-> ProPayload]] }

\* what collecting the output of `gh auth token` can deliver: the outcomes
\* of SubprocessOutcomes, output of several lines, and output written by a
\* command that exited with a non-zero status
ProbeSubprocessOutcomes ==
  SubprocessOutcomes
    \cup { [finished |-> TRUE, exit |-> 0, stdout |-> Some(CliToken \o <<"\n", "x", "\n">>)],
           [finished |-> TRUE, exit |-> 1, stdout |-> Some(CliToken \o <<"\n">>)] }

ProbesInit == InitWith(ProbeSettings, {0}, BOOLEAN, Refreshes)

ProbesMenuOpened ==
  /\ ~destroyed
  /\ FreeSlot(1)
  /\ RefreshWith(1, BOOLEAN, FALSE)
  /\ UNCHANGED <<destroyed, timerId, settingsChangedId, timerSource,
                 handlerConnected, settings>>
  /\ UNCHANGED jsVars

ProbesSubprocessCompletes ==
  /\ SubprocessRuns(1, ProbeSubprocessOutcomes, TRUE)
  /\ UNCHANGED <<destroyed, timerId, settingsChangedId, timerSource,
                 handlerConnected, settings>>
  /\ UNCHANGED jsVars

ProbesFileReadCompletes ==
  /\ FileReadRuns(1, [i \in 2..Len(ProbeOrder) |-> ContentOutcomes(i)], TRUE)
  /\ UNCHANGED <<destroyed, timerId, settingsChangedId, timerSource,
                 handlerConnected, settings>>
  /\ UNCHANGED jsVars

ProbesRequestCompletes ==
  /\ CallbackRuns(1, ProbeHttpOutcomes)
  /\ UNCHANGED <<destroyed, timerId, settingsChangedId, timerSource,
                 handlerConnected, settings>>
  /\ UNCHANGED jsVars

ProbesSettle == Settle(1)

ProbesNext ==
  \/ ProbesMenuOpened
  \/ ProbesSubprocessCompletes
  \/ ProbesFileReadCompletes
  \/ ProbesRequestCompletes
  \/ ProbesSettle

SpecProbes == ProbesInit /\ [][ProbesNext]_vars

\* ------------------------------------------------------------------------
\* The refresh interval: the timer of _startTimer while the preferences
\* window writes the `refresh-interval` key
\* ------------------------------------------------------------------------

TimerInit == InitWith({<<>>}, IntervalSettings, {TRUE}, Refreshes)

\* the refresh-interval key is written through the spin row the preferences
\* window binds to it; the indicator connects no handler for this key, and
\* _startTimer, the only reader of the key, is called from _init alone
IntervalSettingChanged ==
  /\ Dispatching
  /\ \E interval \in IntervalSettings :
       /\ interval # settings.refresh_interval
       /\ settings' = [settings EXCEPT !.refresh_interval = interval]
  /\ UNCHANGED <<ind, rf, destroyed, timerId, settingsChangedId, timerSource,
                 handlerConnected>>
  /\ UNCHANGED jsVars

TimerRequestCompletes(r) ==
  /\ CallbackRuns(r, ProbeHttpOutcomes)
  /\ UNCHANGED <<destroyed, timerId, settingsChangedId, timerSource,
                 handlerConnected, settings>>
  /\ UNCHANGED jsVars

TimerNext ==
  \/ IntervalSettingChanged
  \/ \E r \in Refreshes : TimerTick(r)
  \/ \E r \in Refreshes : SubprocessCompletes(r)
  \/ \E r \in Refreshes : FileReadCompletes(r)
  \/ \E r \in Refreshes : TimerRequestCompletes(r)
  \/ \E r \in Refreshes : Settle(r)
  \/ Destroy

SpecTimer == TimerInit /\ [][TimerNext]_vars

\* ------------------------------------------------------------------------
\* Overlapping refreshes: the timer and the menu start refreshes while the
\* request of an earlier one is in flight
\* ------------------------------------------------------------------------

\* one refresh more than Spec follows at a time
OverlapSlots == 1..(MaxRefresh + 1)

\* answers to the usage request
OverlapOutcomes ==
  { [kind |-> "response", status |-> st, body |-> CHOOSE b \in Bodies : b.kind = "empty"] :
      st \in {401, 500} }
  \cup { [kind |-> "response", status |-> 200, body |-> [kind |-> "object", data |-> ProPayload]] }

\* the indicator of an installation where `gh auth token` prints a token and
\* the refresh interval is positive
OverlapInit == InitWith({<<>>}, {30}, {TRUE}, OverlapSlots)

OverlapTimerTick(r) ==
  /\ timerSource
  /\ FreeSlot(r)
  /\ RefreshWith(r, {TRUE}, TRUE)
  /\ UNCHANGED <<destroyed, timerId, settingsChangedId, timerSource,
                 handlerConnected, settings>>
  /\ UNCHANGED jsVars

OverlapRefreshClicked(r) ==
  /\ ~destroyed
  /\ ind.footerItem
  /\ FreeSlot(r)
  /\ RefreshWith(r, {TRUE}, TRUE)
  /\ UNCHANGED <<destroyed, timerId, settingsChangedId, timerSource,
                 handlerConnected, settings>>
  /\ UNCHANGED jsVars

OverlapTokenFound(r) ==
  /\ SubprocessRuns(r, {o \in SubprocessOutcomes : Truthy(RunSubprocessToken(o))}, FALSE)
  /\ UNCHANGED <<destroyed, timerId, settingsChangedId, timerSource,
                 handlerConnected, settings>>
  /\ UNCHANGED jsVars

OverlapRequestCompletes(r) ==
  /\ CallbackRuns(r, OverlapOutcomes)
  /\ UNCHANGED <<destroyed, timerId, settingsChangedId, timerSource,
                 handlerConnected, settings>>
  /\ UNCHANGED jsVars

OverlapNext ==
  \/ \E r \in OverlapSlots : OverlapRefreshClicked(r)
  \/ \E r \in OverlapSlots : OverlapTimerTick(r)
  \/ \E r \in OverlapSlots : OverlapTokenFound(r)
  \/ \E r \in OverlapSlots : OverlapRequestCompletes(r)
  \/ \E r \in OverlapSlots : Settle(r)

SpecOverlap == OverlapInit /\ [][OverlapNext]_vars

\* ------------------------------------------------------------------------
\* extension.js: the JavaScript indicator
\* ------------------------------------------------------------------------

JsMAX_PX == 220

\* _updateBar of extension.js
JsUpdateBar(bar, pct) ==
  [width |-> (Min(1000, Max(0, pct)) * JsMAX_PX + 500) \div 1000,
   cls   |-> (bar.cls \ LevelClasses) \cup {BarLevel(pct)}]

\* _setMenuState of extension.js
JsSetMenuState(w, state) ==
  IF w.menuState = state THEN w
  ELSE
    LET isSetup == (state = "setup")
    IN  [w EXCEPT !.menuState          = state,
                  !.setupItem          = isSetup,
                  !.setupSep           = isSetup,
                  !.openSettingsItem   = isSetup,
                  !.planItem           = ~isSetup,
                  !.usageSep1          = ~isSetup,
                  !.premiumPercentItem = ~isSetup,
                  !.usageSep2          = ~isSetup,
                  !.chatPercentItem    = ~isSetup,
                  !.usageSep3          = ~isSetup,
                  !.footerItem         = ~isSetup,
                  !.sharedSep          = TRUE]

\* the panel label and the menu after _buildMenu ("..." stands for the
\* ellipsis character)
JsBuiltMenu ==
  JsSetMenuState(
    [menuState          |-> "null",
     panelLabel         |-> "...",
     setupItem          |-> TRUE,
     setupSep           |-> TRUE,
     openSettingsItem   |-> TRUE,
     setupHeading       |-> "GitHub Token Required",
     setupBody          |-> "No Copilot credentials were found on this system.",
     planItem           |-> TRUE,
     planLabel          |-> <<"P","l","a","n",":"," ",".",".",".">>,
     usageSep1          |-> TRUE,
     premiumPercentItem |-> TRUE,
     premiumPercent     |-> "...",
     premiumProgressBar |-> [width |-> -1, cls |-> {"usage-low"}],
     usageSep2          |-> TRUE,
     chatPercentItem    |-> TRUE,
     chatPercent        |-> "...",
     chatProgressBar    |-> [width |-> -1, cls |-> {"usage-low"}],
     usageSep3          |-> TRUE,
     footerItem         |-> TRUE,
     updatedLabel       |-> "Not yet refreshed",
     sharedSep          |-> TRUE],
    "setup")

\* _showSetupState of extension.js
JsShowSetupState(w, heading, body) ==
  [JsSetMenuState(w, "setup") EXCEPT !.setupHeading = heading,
                                     !.setupBody    = body,
                                     !.panelLabel   = "?"]

\* _showNetworkError of extension.js
JsShowNetworkError(w, detail) ==
  [w EXCEPT !.panelLabel = "!", !.updatedLabel = "Error: " \o detail]

\* used.toFixed(1) of a percentage in tenths
JsToFixed1(x) ==
  IF x < 0 THEN "-" \o ToString((-x) \div 10) \o "." \o ToString((-x) % 10)
  ELSE ToString(x \div 10) \o "." \o ToString(x % 10)

\* 100 - (snap.percentRemaining ?? 100)
JsUsed(snap) ==
  1000 - (IF snap[1].percentRemaining # None THEN snap[1].percentRemaining[1] ELSE 1000)

\* data.quotaSnapshots?.premiumInteractions
JsPremium(data) ==
  IF data.quotaSnapshots = None THEN None
  ELSE data.quotaSnapshots[1].premiumInteractions

\* data.quotaSnapshots?.chat
JsChat(data) ==
  IF data.quotaSnapshots = None THEN None ELSE data.quotaSnapshots[1].chat

\* `Updated: ${new Date().toLocaleTimeString()}`
JsUpdatedText(now) ==
  "Updated: " \o Pad2(now.hours) \o ":" \o Pad2(now.minutes) \o ":00"

\* _updateUsageDisplay of extension.js, for a payload that is an object
JsUpdateUsageDisplay(w, data, now) ==
  LET w1       == JsSetMenuState(w, "usage")
      plan     == IF data.copilotPlan # None THEN data.copilotPlan[1]
                  ELSE <<"u","n","k","n","o","w","n">>
      premium  == JsPremium(data)
      chat     == JsChat(data)
      primary  == IF premium # None THEN Some(JsUsed(premium))
                  ELSE IF chat # None THEN Some(JsUsed(chat)) ELSE None
  IN  [w1 EXCEPT
         !.planLabel = <<"P","l","a","n",":"," ">> \o FormatPlan(plan),
         !.premiumPercent = IF premium # None
                              THEN JsToFixed1(JsUsed(premium)) \o " % used"
                              ELSE "unlimited",
         !.premiumProgressBar = JsUpdateBar(@, IF premium # None THEN JsUsed(premium) ELSE 0),
         !.chatPercent = IF chat # None
                           THEN JsToFixed1(JsUsed(chat)) \o " % used"
                           ELSE "unlimited",
         !.chatProgressBar = JsUpdateBar(@, IF chat # None THEN JsUsed(chat) ELSE 0),
         !.panelLabel = IF primary # None
                          THEN ToString(MathRound10(primary[1])) \o " %"
                          ELSE "Copilot",
         !.updatedLabel = JsUpdatedText(now)]

\* payloads, bodies and outcomes of the request of extension.js
JsPayloads == { EmptyPayload, ProPayload, OutOfRangePayload }

JsBodies ==
  { b \in Bodies : b.kind \in {"invalid", "json_null"} }
  \cup { [kind |-> "object", data |-> d] : d \in JsPayloads }

JsHttpOutcomes ==
  { o \in HttpOutcomes : o.kind = "transport" }
  \cup { [kind |-> "response", status |-> st, body |-> b] :
           st \in {200, 401, 500}, b \in JsBodies }

\* the callback of send_and_read_async in _fetchUsage of extension.js.  A
\* body of `null` makes _updateUsageDisplay throw after its _setMenuState
\* call; the callback catches the error.
JsFetchCallback(w, resp, now) ==
  IF resp.kind # "response" THEN JsShowNetworkError(w, ErrorMessage(resp))
  ELSE IF resp.status = 401 \/ resp.status = 403
    THEN JsShowSetupState(w, "Token invalid or expired",
           "The stored GitHub token was rejected by the API.")
  ELSE IF resp.status # 200
    THEN JsShowNetworkError(w, "HTTP " \o ToString(resp.status))
  ELSE IF resp.body.kind = "invalid"
    THEN JsShowNetworkError(w, ErrorMessage(resp))
  ELSE IF resp.body.kind = "json_null"
    THEN JsShowNetworkError(JsSetMenuState(w, "usage"), ErrorMessage(resp))
  ELSE JsUpdateUsageDisplay(w, resp.body.data, now)

\* a refresh of extension.js that is not running
JsIdleRefresh ==
  [pc |-> "idle", probe |-> 0, token |-> None, requests |-> 0, aborted |-> FALSE,
   outcome |-> "none", uiAfterDestroy |-> 0, thrown |-> FALSE]

\* _fetchUsage of extension.js up to send_and_read_async: calling the method
\* on a _session of null throws a TypeError, which rejects the promise of
\* _resolveToken; nothing handles the rejection
JsFetchUsage(rec, token, session) ==
  IF session = None
    THEN [rec EXCEPT !.pc = "resolved", !.outcome = "threw", !.token = token,
                     !.thrown = TRUE]
    ELSE [rec EXCEPT !.pc = "resolved", !.outcome = "fetching", !.token = token,
                     !.requests = @ + 1]

\* the file probes of extension.js: gh hosts.yml, github-copilot hosts.json,
\* github-copilot apps.json
JsProbeCount == 3

\* _resolveToken of extension.js from the point where file probe k has
\* delivered token
JsResolveFrom(rec, w, k, token, session, destroyedFlag, setting) ==
  IF Truthy(token)
    THEN [rf |-> JsFetchUsage(rec, token, session), ind |-> w]
  ELSE IF k < JsProbeCount
    THEN [rf |-> [rec EXCEPT !.probe = k + 1], ind |-> w]
  ELSE IF Truthy(ManualProbe(setting))
    THEN [rf |-> JsFetchUsage(rec, ManualProbe(setting), session), ind |-> w]
  ELSE [rf  |-> [rec EXCEPT !.pc = "resolved", !.outcome = "no_credentials",
                            !.uiAfterDestroy = @ + (IF destroyedFlag THEN 1 ELSE 0)],
        ind |-> JsShowSetupState(w, "No Copilot credentials found",
                  "The extension checked for GitHub CLI, Copilot CLI, and Neovim/Vim plugin tokens but found nothing.")]

JsRefreshes == 1..MaxRefresh

\* _refreshUsage of extension.js: the panel label shows the ellipsis and
\* _resolveToken runs up to its first await
JsStartRefresh(w) ==
  [rf  |-> [JsIdleRefresh EXCEPT !.pc = "probe", !.probe = 1],
   ind |-> [w EXCEPT !.panelLabel = "..."]]

\* enable() of extension.js: _init creates the session, builds the menu,
\* connects the settings handler, arms the timer and starts the first refresh
JsInit ==
  \E token \in ManualSettings, interval \in IntervalSettings :
    LET first == JsStartRefresh(JsBuiltMenu)
    IN  /\ jsSettings = [github_token |-> token, refresh_interval |-> interval]
        /\ jsInd = first.ind
        /\ jsSession = SessionObject
        /\ jsTimerId = IF interval > 0 THEN Some("source") ELSE None
        /\ jsSettingsChangedId = Some("handler")
        /\ jsDestroyed = FALSE
        /\ jsRf = [r \in JsRefreshes |-> IF r = 1 THEN first.rf ELSE JsIdleRefresh]
        /\ TsNotLoaded

JsDispatching == \A q \in JsRefreshes : jsRf[q].pc \notin {"resolved", "done"}

JsFreeSlot(r) ==
  /\ JsDispatching
  /\ jsRf[r].pc = "idle"
  /\ \A q \in JsRefreshes : q < r => jsRf[q].pc # "idle"

JsRefresh(r) ==
  LET started == JsStartRefresh(jsInd)
  IN  /\ jsRf' = [jsRf EXCEPT ![r] = started.rf]
      /\ jsInd' = started.ind

\* the timeout source of _startTimer fires
JsTimerTick(r) ==
  /\ jsTimerId # None
  /\ JsFreeSlot(r)
  /\ JsRefresh(r)
  /\ UNCHANGED <<jsSession, jsTimerId, jsSettingsChangedId, jsDestroyed, jsSettings>>
  /\ UNCHANGED tsVars

\* the popup menu is opened, or its Refresh item is activated
JsMenuActivated(r) ==
  /\ ~jsDestroyed
  /\ JsFreeSlot(r)
  /\ JsRefresh(r)
  /\ UNCHANGED <<jsSession, jsTimerId, jsSettingsChangedId, jsDestroyed, jsSettings>>
  /\ UNCHANGED tsVars

\* the github-token key is written; a connected handler calls _refreshUsage
JsTokenSettingChanged(r) ==
  /\ JsFreeSlot(r)
  /\ \E token \in ManualSettings :
       /\ token # jsSettings.github_token
       /\ jsSettings' = [jsSettings EXCEPT !.github_token = token]
  /\ IF jsSettingsChangedId # None
       THEN JsRefresh(r)
       ELSE UNCHANGED <<jsRf, jsInd>>
  /\ UNCHANGED <<jsSession, jsTimerId, jsSettingsChangedId, jsDestroyed>>
  /\ UNCHANGED tsVars

\* the callback of load_contents_async runs and _resolveToken resumes
JsFileReadCompletes(r) ==
  /\ JsDispatching
  /\ jsRf[r].pc = "probe"
  /\ \E o \in FileOutcomes(jsRf[r].probe + 1) :
       LET next == JsResolveFrom(jsRf[r], jsInd, jsRf[r].probe, ReadFileToken(o),
                                 jsSession, jsDestroyed, jsSettings.github_token)
       IN  /\ jsRf' = [jsRf EXCEPT ![r] = next.rf]
           /\ jsInd' = next.ind
  /\ UNCHANGED <<jsSession, jsTimerId, jsSettingsChangedId, jsDestroyed, jsSettings>>
  /\ UNCHANGED tsVars

\* the callback of send_and_read_async runs
JsRequestCompletes(r) ==
  /\ JsDispatching
  /\ jsRf[r].pc = "http"
  /\ \E resp \in (IF jsRf[r].aborted THEN {CancelledOutcome} ELSE JsHttpOutcomes) :
       /\ jsInd' = JsFetchCallback(jsInd, resp, CHOOSE now \in Clock : TRUE)
       /\ jsRf' = [jsRf EXCEPT ![r] =
                     [@ EXCEPT !.pc = "done",
                               !.outcome = FetchOutcome(resp),
                               !.uiAfterDestroy = @ + (IF jsDestroyed THEN 1 ELSE 0)]]
  /\ UNCHANGED <<jsSession, jsTimerId, jsSettingsChangedId, jsDestroyed, jsSettings>>
  /\ UNCHANGED tsVars

\* destroy() of extension.js, called by disable()
JsDestroy ==
  /\ JsDispatching
  /\ ~jsDestroyed
  /\ jsDestroyed' = TRUE
  /\ jsTimerId' = None
  /\ jsSettingsChangedId' = None
  /\ jsSession' = None
  /\ jsRf' = [r \in JsRefreshes |->
                IF jsRf[r].pc = "http" THEN [jsRf[r] EXCEPT !.aborted = TRUE]
                ELSE jsRf[r]]
  /\ UNCHANGED <<jsInd, jsSettings>>
  /\ UNCHANGED tsVars

\* control returns to the main loop
JsSettle(r) ==
  /\ jsRf[r].pc \in {"resolved", "done"}
  /\ jsRf' = [jsRf EXCEPT ![r] =
                IF @.pc = "resolved" /\ @.outcome = "fetching"
                  THEN [JsIdleRefresh EXCEPT !.pc = "http", !.token = jsRf[r].token,
                                             !.requests = jsRf[r].requests,
                                             !.outcome = "fetching"]
                  ELSE JsIdleRefresh]
  /\ UNCHANGED <<jsInd, jsSession, jsTimerId, jsSettingsChangedId, jsDestroyed,
                 jsSettings>>
  /\ UNCHANGED tsVars

JsNext ==
  \/ \E r \in JsRefreshes : JsTimerTick(r)
  \/ \E r \in JsRefreshes : JsMenuActivated(r)
  \/ \E r \in JsRefreshes : JsTokenSettingChanged(r)
  \/ \E r \in JsRefreshes : JsFileReadCompletes(r)
  \/ \E r \in JsRefreshes : JsRequestCompletes(r)
  \/ \E r \in JsRefreshes : JsSettle(r)
  \/ JsDestroy

SpecJs == JsInit /\ [][JsNext]_vars

\* ------------------------------------------------------------------------
\* Properties of token resolution
\* ------------------------------------------------------------------------

\* the priority order of the token sources
ExpectedOrder ==
  <<"gh-subprocess", "gh-hosts.yml", "copilot-hosts.json", "copilot-apps.json",
    "copilot-oauth.json", "manual-setting">>

\* the token each source holds in this model's environment
ExpectedToken(source) ==
  IF source = "gh-subprocess" THEN Some(CliToken)
  ELSE IF source = "manual-setting" THEN Some(ManualToken)
  ELSE Some(FileToken)

\* the display _resolveToken shows when no source has a token
NoCredentialsDisplay(w) ==
  /\ w.menuState = "setup"
  /\ w.setupHeading = "GitHub Token Required"
  /\ w.setupBody = "No credentials found. Open Settings to add your token."
  /\ w.setupItem /\ w.setupSep /\ w.openSettingsItem
  /\ ~w.headerItem /\ ~w.premiumResult.item /\ ~w.footerItem
  /\ ~w.chatResult.item /\ ~w.chatSep

\* C1: the sources are tried in the fixed order gh subprocess, gh hosts.yml,
\* github-copilot hosts.json, apps.json, oauth.json, manual setting; a run of
\* _resolveToken that is not cut short by teardown fetches with the token of
\* the first source that yields a non-empty token, runs no source after it,
\* and reaches the manual setting only after all five probes found nothing.
C1_FirstProbeWins ==
  \A r \in Refreshes :
    LET rec == rf[r]
        n   == Len(rec.results)
    IN  /\ rec.pc \in {"probe", "resolved"} =>
             /\ Len(rec.ran) <= Len(ExpectedOrder)
             /\ \A i \in 1..Len(rec.ran) : rec.ran[i] = ExpectedOrder[i]
             /\ \A i \in 1..(n - 1) : ~Truthy(rec.results[i])
        /\ rec.pc = "probe" =>
             /\ Len(rec.ran) = n + 1
             /\ \A i \in 1..n : ~Truthy(rec.results[i])
             /\ rec.requests = 0
        /\ rec.pc = "resolved" =>
             /\ n >= 1
             /\ Len(rec.ran) = n
             /\ rec.outcome \in {"fetching", "no_credentials", "torn_down"}
             /\ rec.outcome # "torn_down" =>
                  IF Truthy(rec.results[n])
                    THEN /\ rec.outcome = "fetching"
                         /\ rec.requests = 1
                         /\ rec.token = rec.results[n]
                         /\ rec.token = ExpectedToken(rec.ran[n])
                    ELSE /\ n = Len(ExpectedOrder)
                         /\ rec.outcome = "no_credentials"
                         /\ rec.requests = 0

\* the manual token is fetched with after all five probes found nothing, one
\* of them an empty string
C1_Witness ==
  \E r \in Refreshes :
    /\ rf[r].pc = "resolved"
    /\ rf[r].outcome = "fetching"
    /\ Len(rf[r].results) = 6
    /\ rf[r].results[3] = Some(<<>>)
    /\ rf[r].token = Some(ManualToken)

\* C2: when the subprocess, the four files and the manual setting all yield
\* not-found, the run ends in the 'no credentials' Setup display, having made
\* one display update and sent no request.
C2_NoCredentialsNoFetch ==
  \A r \in Refreshes :
    ( /\ rf[r].pc = "resolved"
      /\ Len(rf[r].results) = Len(ExpectedOrder)
      /\ \A i \in 1..Len(rf[r].results) : ~Truthy(rf[r].results[i]) )
    => /\ rf[r].outcome = "no_credentials"
       /\ rf[r].requests = 0
       /\ rf[r].token = None
       /\ rf[r].uiCalls = 1
       /\ NoCredentialsDisplay(ind)

\* all six sources were tried and none had a token, while the menu showed
\* usage data of an earlier refresh
C2_Witness ==
  \E r \in Refreshes :
    /\ rf[r].pc = "resolved"
    /\ Len(rf[r].results) = 6
    /\ \A i \in 1..6 : ~Truthy(rf[r].results[i])
    /\ ind.planLabel = <<"P","r","o">>

\* C3: once destroy() has run, a probe of _resolveToken that completes ends
\* the run there, whatever token it delivers: no further probe is started,
\* no request is sent and no widget is touched.
C3_TeardownStopsResolver ==
  [][ \A r \in Refreshes :
        (destroyed /\ rf[r].pc = "probe" /\ rf'[r] # rf[r]) =>
          /\ rf'[r].pc = "resolved"
          /\ rf'[r].outcome = "torn_down"
          /\ rf'[r].ran = rf[r].ran
          /\ rf'[r].requests = 0
          /\ rf'[r].uiCalls = 0
          /\ rf'[r].uiAfterDestroy = 0
          /\ ind' = ind ]_vars

\* destroy() ran while the gh hosts.yml probe or a later one was in flight,
\* and that probe then delivered a token
C3_Witness ==
  \E r \in Refreshes :
    /\ destroyed
    /\ rf[r].pc = "resolved"
    /\ rf[r].outcome = "torn_down"
    /\ Len(rf[r].ran) >= 2
    /\ Truthy(rf[r].results[Len(rf[r].results)])

\* C4: when destroy() runs while the request of a refresh is in flight, the
\* request's callback makes no display update afterwards.
C4_NoUiAfterAbortedRequest ==
  \A r \in Refreshes :
    (rf[r].pc = "done" /\ rf[r].aborted) => rf[r].uiAfterDestroy = 0

\* C5: in extension.js, when destroy() runs while a file probe of
\* _resolveToken is in flight, the rest of that run changes no widget and
\* throws nothing.
C5_JsTeardownIsQuiet ==
  \A r \in JsRefreshes :
    (jsDestroyed /\ jsRf[r].pc = "resolved") =>
      /\ jsRf[r].uiAfterDestroy = 0
      /\ ~jsRf[r].thrown

\* ------------------------------------------------------------------------
\* Properties of the usage request
\* ------------------------------------------------------------------------

\* the callback of slot r's request runs in this step
CallbackStep(r) == rf[r].pc = "http" /\ rf'[r].pc = "done"

\* the response slot r's callback has just handled
Handled(r) == rf[r].response[1]

SetupShown(w) ==
  /\ w.menuState = "setup"
  /\ w.setupItem /\ w.setupSep /\ w.openSettingsItem
  /\ ~w.headerItem /\ ~w.premiumResult.item /\ ~w.footerItem
  /\ ~w.chatResult.item /\ ~w.chatSep

TokenRejectedDisplay(w) ==
  /\ SetupShown(w)
  /\ w.setupHeading = "Token Invalid or Expired"
  /\ w.setupBody = "The stored token was rejected. Update it in Settings."

DataUnavailableDisplay(w) ==
  /\ SetupShown(w)
  /\ w.setupHeading = "Copilot Data Unavailable"
  /\ w.setupBody =
       "API returned no usage data. Your token may lack Copilot permissions."

\* C6: a response with status 401 or 403 produces the 'token rejected' Setup
\* display whatever its body is and whatever the menu showed before.
C6_RejectedTokenShowsSetup ==
  \A r \in Refreshes :
    ( /\ rf[r].pc = "done"
      /\ Handled(r).kind = "response"
      /\ Handled(r).status \in {401, 403} )
    => /\ rf[r].outcome = "auth_rejected"
       /\ TokenRejectedDisplay(ind)

\* a 403 whose body is a valid usage payload arrives while the menu holds the
\* usage data of an earlier refresh
C6_Witness ==
  \E r \in Refreshes :
    /\ rf[r].pc = "done"
    /\ Handled(r).kind = "response"
    /\ Handled(r).status = 403
    /\ Handled(r).body = [kind |-> "object", data |-> FreePayload]
    /\ ind.planLabel = <<"P","r","o">>
    /\ ind.premiumResult.usedLabel = "20%"
    /\ ind.menuState = "setup"

\* a fetch that ends with a status other than 200, 401, 403, with a transport
\* failure or with a body that does not decode
NetworkFailure(resp) ==
  \/ resp.kind # "response"
  \/ resp.status \notin {200, 401, 403}
  \/ resp.status = 200 /\ resp.body.kind \in {"zero_length", "invalid", "json_null"}

ErrorLabels ==
  { "Error: HTTP 500", "Error: Could not connect", "Error: Operation was cancelled",
    "Error: JSON.parse: unexpected end of data",
    "Error: JSON.parse: unexpected character", "Error: data is null" }

\* C7: a fetch that ends with a non-200 status other than 401/403, or with a
\* transport or decode failure, writes an error text into the updated label
\* and shows the warning dot, and changes nothing else: the menu state, the
\* visibility of every item, the plan label and both quota rows stay as they
\* were.
C7_NetworkErrorKeepsDisplay ==
  [][ \A r \in Refreshes :
        (CallbackStep(r) /\ NetworkFailure(Handled(r)')) =>
          /\ ind'.updatedLabel \in ErrorLabels
          /\ ind'.warningDot.visible
          /\ ind'.menuState = ind.menuState
          /\ ind'.planLabel = ind.planLabel
          /\ ind'.premiumResult = ind.premiumResult
          /\ ind'.chatResult = ind.chatResult
          /\ ind' = [ind EXCEPT !.updatedLabel = ind'.updatedLabel,
                                !.warningDot   = ind'.warningDot] ]_vars

\* a 500 arrives while the menu shows the usage of an earlier refresh
C7_Witness ==
  \E r \in Refreshes :
    /\ rf[r].pc = "done"
    /\ Handled(r).kind = "response"
    /\ Handled(r).status = 500
    /\ ind.menuState = "usage"
    /\ ind.premiumResult.usedLabel = "20%"
    /\ ind.updatedLabel = "Error: HTTP 500"

\* a 200 response with a body of no bytes
EmptyBodied(resp) ==
  /\ resp.kind = "response"
  /\ resp.status = 200
  /\ resp.body.kind \in {"empty", "zero_length"}

\* a 200 response whose body is an object with none of the fields
FieldlessBodied(resp) ==
  /\ resp.kind = "response"
  /\ resp.status = 200
  /\ resp.body.kind = "object"
  /\ resp.body.data = EmptyPayload

ParsedBodied(resp) ==
  /\ resp.kind = "response"
  /\ resp.status = 200
  /\ resp.body.kind = "object"

\* the plan, the premium snapshot and the chat snapshot as the payload
\* carries them under either spelling; <<>> when the payload has none
CarriedPlan(d) == IF d.copilot_plan # None THEN d.copilot_plan ELSE d.copilotPlan

CarriedSnapshots(d) ==
  IF d.quota_snapshots # None THEN d.quota_snapshots ELSE d.quotaSnapshots

CarriedPremium(d) ==
  IF CarriedSnapshots(d) = None THEN None
  ELSE IF CarriedSnapshots(d)[1].premium_interactions # None
    THEN CarriedSnapshots(d)[1].premium_interactions
    ELSE CarriedSnapshots(d)[1].premiumInteractions

CarriedChat(d) ==
  IF CarriedSnapshots(d) = None THEN None ELSE CarriedSnapshots(d)[1].chat

AllAbsent(d) == CarriedPlan(d) = None /\ CarriedPremium(d) = None /\ CarriedChat(d) = None

\* the plan is absent or the empty string
PlanBlank(d) == CarriedPlan(d) = None \/ CarriedPlan(d) = Some(<<>>)

UsageShown(w) ==
  /\ w.menuState = "usage"
  /\ ~w.setupItem /\ ~w.setupSep /\ ~w.openSettingsItem
  /\ w.headerItem /\ w.premiumResult.item /\ w.footerItem

\* C9 as stated: a parsed payload with plan, premium snapshot and chat
\* snapshot all absent ends in the Setup state, and a payload with at least
\* one of the three present puts the menu into the usage state.
C9_PresentFieldShowsUsage ==
  \A r \in Refreshes :
    (rf[r].pc = "done" /\ ParsedBodied(Handled(r))) =>
      IF AllAbsent(Handled(r).body.data)
        THEN ind.menuState = "setup"
        ELSE ind.menuState = "usage"

\* C9 amended: a parsed payload whose plan is absent or the empty string and
\* whose premium and chat snapshots are both absent ends in the 'data
\* unavailable' Setup state and writes nothing into the plan label or the
\* quota rows (bar, used label, remaining label); every other parsed payload
\* puts the menu into the usage state.
C9_NoUsageDataShowsSetup ==
  [][ \A r \in Refreshes :
        (CallbackStep(r) /\ ParsedBodied(Handled(r)')) =>
          LET d == Handled(r)'.body.data
          IN  IF PlanBlank(d) /\ CarriedPremium(d) = None /\ CarriedChat(d) = None
                THEN /\ DataUnavailableDisplay(ind')
                     /\ ind'.planLabel = ind.planLabel
                     /\ ind'.premiumResult.bar = ind.premiumResult.bar
                     /\ ind'.premiumResult.usedLabel = ind.premiumResult.usedLabel
                     /\ ind'.premiumResult.percentLabel = ind.premiumResult.percentLabel
                     /\ ind'.chatResult.bar = ind.chatResult.bar
                     /\ ind'.chatResult.usedLabel = ind.chatResult.usedLabel
                     /\ ind'.chatResult.percentLabel = ind.chatResult.percentLabel
                     /\ ind'.updatedLabel = ind.updatedLabel
                ELSE UsageShown(ind') ]_vars

\* a payload whose only field is an empty plan string arrives while the menu
\* shows usage: the menu goes to Setup and the rows keep their values
C9_Witness ==
  \E r \in Refreshes :
    /\ rf[r].pc = "done"
    /\ ParsedBodied(Handled(r))
    /\ Handled(r).body.data = BlankPlanPayload
    /\ ind.menuState = "setup"
    /\ ind.setupHeading = "Copilot Data Unavailable"
    /\ ind.premiumResult.usedLabel = "20%"

\* 100 - r clamped to [0,100], in tenths of a percent
ClampedUsed(r) ==
  IF 1000 - r < 0 THEN 0 ELSE IF 1000 - r > 1000 THEN 1000 ELSE 1000 - r

\* a quota row shows the clamped used percentage of r in its label and its bar
RowShowsClampedUsed(row, r) ==
  /\ row.usedLabel = ToString((ClampedUsed(r) + 5) \div 10) \o "%"
  /\ row.bar.width = (ClampedUsed(r) * 244 + 500) \div 1000

\* the remaining percentage of a snapshot, under either spelling
CarriedRemaining(snap) ==
  IF snap[1].percent_remaining # None
    THEN snap[1].percent_remaining ELSE snap[1].percentRemaining

\* C10: for every remaining percentage r of a displayed payload, also r < 0
\* and r > 100, the used label and the bar fill of the quota's row show
\* 100 - r clamped to [0,100].
C10_UsedPercentClamped ==
  \A r \in Refreshes :
    (rf[r].pc = "done" /\ rf[r].outcome = "success") =>
      LET d == Handled(r).body.data
      IN  /\ (CarriedPremium(d) # None /\ CarriedRemaining(CarriedPremium(d)) # None)
                => RowShowsClampedUsed(ind.premiumResult,
                                       CarriedRemaining(CarriedPremium(d))[1])
          /\ (CarriedChat(d) # None /\ CarriedRemaining(CarriedChat(d)) # None)
                => RowShowsClampedUsed(ind.chatResult,
                                       CarriedRemaining(CarriedChat(d))[1])

\* the remaining percentage a payload carries for a snapshot: None when the
\* snapshot is missing or has no percentage
RemainingOf(snap) == IF snap = None THEN None ELSE CarriedRemaining(snap)

\* what a quota row shows for the remaining percentage r
RowShowsQuota(row, r) ==
  /\ (row.usedLabel = "unlimited") <=> (r = None)
  /\ r = None => (row.percentLabel = "" /\ row.bar.width = 0)
  /\ r = Some(0) =>
       (row.usedLabel = "100%" /\ row.percentLabel = "0% remaining" /\ row.bar.width = 244)
  /\ r = Some(1000) =>
       (row.usedLabel = "0%" /\ row.percentLabel = "100% remaining" /\ row.bar.width = 0)

\* C11: for each quota of a displayed payload, 'unlimited' is shown if and
\* only if the remaining percentage is absent (snapshot missing or without
\* the field); remaining 0 shows 100% used and remaining 100 shows 0% used.
C11_UnlimitedIffAbsent ==
  \A r \in Refreshes :
    (rf[r].pc = "done" /\ rf[r].outcome = "success") =>
      /\ RowShowsQuota(ind.premiumResult,
                       RemainingOf(CarriedPremium(Handled(r).body.data)))
      /\ RowShowsQuota(ind.chatResult,
                       RemainingOf(CarriedChat(Handled(r).body.data)))

\* a premium snapshot without the field next to a chat snapshot with 100 %
\* remaining
C11_Witness ==
  \E r \in Refreshes :
    /\ rf[r].pc = "done"
    /\ rf[r].outcome = "success"
    /\ Handled(r).body.data = SnakePayload(Some(PlanFree), None, Some(1000))
    /\ ind.premiumResult.usedLabel = "unlimited"
    /\ ind.chatResult.usedLabel = "0%"

\* the payload with every field under its snake_case name only, holding the
\* snake_case value when the payload has one and else the camelCase value
AsSnake(d) ==
  Payload(CarriedPlan(d), None,
          IF CarriedSnapshots(d) = None THEN None
          ELSE Some(Snapshots(
                 IF CarriedPremium(d) = None THEN None
                 ELSE Some(Snapshot(CarriedRemaining(CarriedPremium(d)), None)),
                 None,
                 IF CarriedChat(d) = None THEN None
                 ELSE Some(Snapshot(CarriedRemaining(CarriedChat(d)), None)))),
          None)

\* the same values under the camelCase names only
AsCamel(d) ==
  Payload(None, CarriedPlan(d), None,
          IF CarriedSnapshots(d) = None THEN None
          ELSE Some(Snapshots(
                 None,
                 IF CarriedPremium(d) = None THEN None
                 ELSE Some(Snapshot(None, CarriedRemaining(CarriedPremium(d)))),
                 IF CarriedChat(d) = None THEN None
                 ELSE Some(Snapshot(None, CarriedRemaining(CarriedChat(d)))))))

\* C12: the display uses, for the plan, the snapshot container, the premium
\* snapshot and the remaining percentage, the snake_case value when it is
\* present and else the camelCase value: a payload is displayed exactly as
\* the payload that carries those values in snake_case only, and as the one
\* that carries them in camelCase only.
C12_SnakeCasePreferred ==
  [][ \A r \in Refreshes :
        (CallbackStep(r) /\ rf'[r].outcome = "success") =>
          \E d \in {Handled(r)'.body.data} :
            /\ ind'.planLabel =
                 (IF CarriedPlan(d) = None THEN <<>> ELSE FormatPlan(CarriedPlan(d)[1]))
            /\ \E now \in Clock :
                 /\ ind' = UpdateUsageDisplay(ind, AsSnake(d), now)
                 /\ ind' = UpdateUsageDisplay(ind, AsCamel(d), now) ]_vars

\* a payload that gives plan and percentages under both spellings with
\* different values is displayed with the snake_case ones
C12_Witness ==
  \E r \in Refreshes :
    /\ rf[r].pc = "done"
    /\ rf[r].outcome = "success"
    /\ Handled(r).body.data.copilot_plan = Some(PlanPro)
    /\ Handled(r).body.data.copilotPlan = Some(PlanFree)
    /\ ind.planLabel = <<"P", "r", "o">>
    /\ ~ind.chatResult.item

\* the plan identifiers of the payloads that read free, copilot_free or
\* copilot-free when upper and lower case are not told apart
ChatLimitedSpellings ==
  { PlanFree, PlanFreeCapital, PlanCopilotFree, PlanCopilotFreeHyphen,
    PlanCopilotFreeUpper }

\* C13: after a successful usage update the chat row (and its separator) is
\* visible exactly when the plan, compared case-insensitively, is one of
\* free, copilot_free, copilot-free; for any other plan and for an absent
\* plan it is hidden.
C13_ChatRowForLimitedPlans ==
  \A r \in Refreshes :
    (rf[r].pc = "done" /\ rf[r].outcome = "success") =>
      LET plan == CarriedPlan(Handled(r).body.data)
          shown == plan # None /\ plan[1] \in ChatLimitedSpellings
      IN  /\ ind.chatResult.item = shown
          /\ ind.chatSep = shown

\* the plan COPILOT_FREE makes the chat row visible
C13_Witness ==
  \E r \in Refreshes :
    /\ rf[r].pc = "done"
    /\ rf[r].outcome = "success"
    /\ CarriedPlan(Handled(r).body.data) = Some(PlanCopilotFreeUpper)
    /\ ind.chatResult.item
    /\ ind.chatSep

\* the level class of a used percentage (tenths)
LevelOfBand(used) ==
  IF used < 400 THEN "usage-low"
  ELSE IF used < 700 THEN "usage-medium"
  ELSE IF used < 900 THEN "usage-high"
  ELSE "usage-critical"

FourLevelClasses == {"usage-low", "usage-medium", "usage-high", "usage-critical"}

BarShowsBand(bar, r) ==
  r # None => bar.cls \cap FourLevelClasses = {LevelOfBand(ClampedUsed(r[1]))}

\* C14: each bar carries exactly one of the four level classes at all times,
\* and after an update it is the class of the band of the used percentage:
\* below 40 usage-low, 40 to below 70 usage-medium, 70 to below 90
\* usage-high, 90 and above usage-critical.
C14_OneLevelClass ==
  /\ Cardinality(ind.premiumResult.bar.cls \cap FourLevelClasses) = 1
  /\ Cardinality(ind.chatResult.bar.cls \cap FourLevelClasses) = 1
  /\ \A r \in Refreshes :
       (rf[r].pc = "done" /\ rf[r].outcome = "success") =>
         /\ BarShowsBand(ind.premiumResult.bar,
                         RemainingOf(CarriedPremium(Handled(r).body.data)))
         /\ BarShowsBand(ind.chatResult.bar,
                         RemainingOf(CarriedChat(Handled(r).body.data)))

\* nothing remaining on the premium quota (100 % used) while the chat quota
\* is untouched: the premium bar is critical, the chat bar low
C14_Witness ==
  \E r \in Refreshes :
    /\ rf[r].pc = "done"
    /\ rf[r].outcome = "success"
    /\ RemainingOf(CarriedPremium(Handled(r).body.data)) = Some(0)
    /\ RemainingOf(CarriedChat(Handled(r).body.data)) = Some(1000)
    /\ ind.premiumResult.bar.cls = {"usage-critical"}
    /\ ind.chatResult.bar.cls = {"usage-low"}

\* the value is an object with one of the token fields
HasTokenField(v) ==
  /\ v.t = "object"
  /\ \E n \in DOMAIN v.items : v.items[n].k \in {"oauth_token", "accessToken"}

\* a token field occurs in the document, at any of the depths the three JSON
\* files keep it
CarriesTokenField(v) ==
  \/ HasTokenField(v)
  \/ \E n \in DOMAIN v.items :
       \/ HasTokenField(v.items[n].v)
       \/ \E m \in DOMAIN v.items[n].v.items : HasTokenField(v.items[n].v.items[m].v)

\* the file of awaited probe k is missing or unreadable, is not JSON, or has
\* no token field (hosts.yml: no oauth_token marker)
UnusableFile(k, o) ==
  \/ ~o.loaded
  \/ ~o.parsed
  \/ k = 2 /\ \A i \in 1..Len(o.content.s) : ~MatchesAt(o.content.s, i, YmlMarker)
  \/ k > 2 /\ ~CarriesTokenField(o.content)

\* collecting the output of `gh auth token` failed or delivered none
UnusableSubprocess(o) == ~o.finished \/ o.stdout = None

\* the resolver has gone on from awaited probe k to the next probe
ContinuedAfter(rec, k) ==
  /\ Len(rec.ran) > k
  /\ SubSeq(rec.ran, 1, k + 1) = SubSeq(ExpectedOrder, 1, k + 1)
  /\ k < 5 => (rec.pc = "probe" /\ rec.probe = k + 1)

\* C19: a file or subprocess probe never raises: an executable that cannot
\* be spawned, output that cannot be collected, a missing or unreadable
\* file, invalid JSON and JSON without the token field (null, a scalar,
\* entries that are null or lack the field) each resolve the probe to
\* not-found, and the resolver goes on to the next probe.
C19_ProbesNeverRaise ==
  \A r \in Refreshes :
    LET rec == rf[r]
    IN  /\ (rec.results # <<>> /\ rec.inputs = <<>>) =>
             (rec.results[1] = None /\ ContinuedAfter(rec, 1))
        /\ (rec.inputs # <<>> /\ rec.inputs[1].probe = 1
               /\ UnusableSubprocess(rec.inputs[1].given)) =>
             (rec.results[1] = None /\ ContinuedAfter(rec, 1))
        /\ (rec.inputs # <<>> /\ rec.inputs[1].probe > 1
               /\ UnusableFile(rec.inputs[1].probe, rec.inputs[1].given)) =>
             (rec.results[rec.inputs[1].probe] = None
                /\ ContinuedAfter(rec, rec.inputs[1].probe))

\* oauth.json holds an array of null and a number where the token entries
\* are expected: the last file probe finds nothing and the manual setting is
\* consulted
C19_Witness ==
  \E r \in Refreshes :
    /\ rf[r].inputs # <<>>
    /\ rf[r].inputs[1].probe = 5
    /\ rf[r].inputs[1].given.content =
         JObject(<<JEntry("https://github.com/login/oauth", JArray(<<JNull, JNumber>>))>>)
    /\ rf[r].results[5] = None
    /\ rf[r].ran[6] = "manual-setting"

\* C20: a candidate token that is empty after trimming is treated as
\* not-found by every probe, so no request is sent with a token that is
\* empty or white space only.
C20_NoBlankTokenFetched ==
  \A r \in Refreshes :
    rf[r].requests > 0 =>
      (rf[r].token # None /\ Trim(rf[r].token[1]) # <<>>)

\* C17: each refresh sends at most one request, with the token of the first
\* probe that found one; whatever the request's outcome (401/403, another
\* status, a transport failure, an empty or unusable body), its callback
\* ends the refresh: it sends no second request, runs no further probe and
\* starts no other refresh.
C17_SingleRequest ==
  [][ \A r \in Refreshes :
        /\ rf'[r].requests <= 1
        /\ (rf'[r].pc = "resolved" /\ rf'[r].requests = 1) =>
             LET n == Len(rf'[r].results)
             IN  /\ Truthy(rf'[r].token)
                 /\ rf'[r].token = rf'[r].results[n]
                 /\ \A m \in 1..(n - 1) : ~Truthy(rf'[r].results[m])
        /\ CallbackStep(r) =>
             /\ rf[r].requests = 1
             /\ rf'[r].requests = 1
             /\ rf'[r].token = rf[r].token
             /\ rf'[r].probe = 0
             /\ rf'[r].ran = <<>>
             /\ \A q \in Refreshes : q # r => rf'[q] = rf[q]
        /\ (rf[r].pc = "done" /\ rf'[r] # rf[r]) => rf'[r] = IdleRefresh ]_vars

\* a refresh whose token was rejected has ended after its one request
C17_Witness ==
  \E r \in Refreshes :
    /\ rf[r].pc = "done"
    /\ rf[r].outcome = "auth_rejected"
    /\ rf[r].requests = 1
    /\ Handled(r).status = 403

\* what the menu and the panel show: the visibility of every item, the texts
\* and bars of the items that are visible, and whether the warning dot is
\* visible (its style classes are left out)
Shown(w) ==
  [setupItem        |-> w.setupItem,
   setupSep         |-> w.setupSep,
   openSettingsItem |-> w.openSettingsItem,
   headerItem       |-> w.headerItem,
   chatSep          |-> w.chatSep,
   footerItem       |-> w.footerItem,
   settingsItem     |-> w.settingsItem,
   setupHeading     |-> IF w.setupItem THEN w.setupHeading ELSE "",
   setupBody        |-> IF w.setupItem THEN w.setupBody ELSE "",
   planLabel        |-> IF w.headerItem THEN w.planLabel ELSE <<>>,
   premiumResult    |-> IF w.premiumResult.item THEN w.premiumResult
                        ELSE [NewUsageRow EXCEPT !.item = FALSE],
   chatResult       |-> IF w.chatResult.item THEN w.chatResult
                        ELSE [NewUsageRow EXCEPT !.item = FALSE],
   updatedLabel     |-> IF w.footerItem THEN w.updatedLabel ELSE "",
   dotVisible       |-> w.warningDot.visible]

\* the step of a run of _resolveToken that finds no token anywhere
NoCredentialsStep(r) ==
  rf[r].pc = "probe" /\ rf'[r].pc = "resolved" /\ rf'[r].outcome = "no_credentials"

\* what is shown after no token was found is what would be shown had the
\* resolver started from the freshly built menu
NoCredentialsAsOverBuiltMenu ==
  Shown(ind') = Shown(ShowSetupState(BuiltMenu, "GitHub Token Required",
                        "No credentials found. Open Settings to add your token."))

\* what is shown after the response is handled is what would be shown had it
\* been handled over the freshly built menu
ShownAsOverBuiltMenu(r) ==
  \E now \in Clock :
    \E own \in {FetchCallback(BuiltMenu, SessionObject, Handled(r)', now)} :
      Shown(ind') = Shown(own)

C18_OneDisplayUpdate ==
  \A r \in Refreshes :
    (rf[r].pc = "done" \/ (rf[r].pc = "resolved" /\ rf[r].outcome # "fetching")) =>
      rf[r].uiCalls = 1

\* what refresh r would show on its own: its response handled over the
\* widgets as they were when the refresh was triggered
ShownOnItsOwn(r) ==
  \E now \in Clock :
    \E own \in {FetchCallback(rf[r].base[1], SessionObject, Handled(r)', now)} :
      Shown(ind') = Shown(own)

FirstLine(s) ==
  LET breaks == {i \in 1..Len(s) : s[i] = "\n"}
  IN  IF breaks = {} THEN s
      ELSE SubSeq(s, 1, (CHOOSE i \in breaks : \A j \in breaks : i <= j) - 1)

\* the callback of communicate_utf8_async was given outcome o last
SubprocessGave(rec) ==
  /\ rec.inputs # <<>>
  /\ rec.inputs[1].probe = 1

\* C21: the subprocess probe returns only the first line of the command's
\* standard output: when the output has several lines, nothing after the
\* first line is part of the returned token.
C21_FirstLineOnly ==
  \A r \in Refreshes :
    LET rec == rf[r]
    IN  (SubprocessGave(rec) /\ rec.inputs[1].given.finished
           /\ rec.inputs[1].given.stdout # None) =>
          rec.results[1] = OrNull(Some(Trim(FirstLine(rec.inputs[1].given.stdout[1]))))

\* C22: when `gh` exits with a non-zero status the subprocess probe resolves
\* to not-found whatever the command wrote to standard output, and the
\* resolver goes on to the file probes.
C22_NonZeroExitNotFound ==
  \A r \in Refreshes :
    LET rec == rf[r]
    IN  (SubprocessGave(rec) /\ rec.inputs[1].given.exit # 0) =>
          (rec.results[1] = None /\ ContinuedAfter(rec, 1))

\* ------------------------------------------------------------------------
\* The token extractors
\* ------------------------------------------------------------------------

\* the callback of load_contents_async of awaited probe k ran last and gave
\* the extractor a document
ExtractorRan(rec, k) ==
  /\ rec.inputs # <<>>
  /\ rec.inputs[1].probe = k
  /\ rec.inputs[1].given.parsed

\* the values stored in object v under key
StoredUnder(v, key) ==
  IF v.t # "object" THEN {}
  ELSE { v.items[n].v : n \in {m \in DOMAIN v.items : v.items[m].k = key} }

\* the tokens the document keeps as field of the entry named host
TokensOfHost(doc, host, field) ==
  { t \in UNION { StoredUnder(e, field) : e \in StoredUnder(doc, host) } : ~Nullish(t) }

\* some top-level entry other than "github.com" carries a token
OtherHostHasToken(doc) ==
  /\ doc.t = "object"
  /\ \E n \in DOMAIN doc.items :
       /\ doc.items[n].k # "github.com"
       /\ TokensOfHost(doc, doc.items[n].k, "oauth_token") # {}

\* C23: readToken_hostsJson returns the oauth_token nested under the
\* top-level key "github.com" and nothing else: for a document without that
\* key, or whose "github.com" entry has no oauth_token, the result is
\* not-found, also when other top-level entries carry a token.
C23_HostsOnlyGithubCom ==
  \A r \in Refreshes :
    LET rec == rf[r]
        doc == rec.inputs[1].given.content
    IN  ExtractorRan(rec, 3) =>
          IF TokensOfHost(doc, "github.com", "oauth_token") = {}
            THEN rec.results[3] = None /\ ContinuedAfter(rec, 3)
            ELSE \E t \in TokensOfHost(doc, "github.com", "oauth_token") :
                   rec.results[3] = Some(t.s)

\* hosts.json holds a token for example.com only: the probe finds nothing
\* and apps.json is read next
C23_Witness ==
  \E r \in Refreshes :
    /\ ExtractorRan(rf[r], 3)
    /\ OtherHostHasToken(rf[r].inputs[1].given.content)
    /\ TokensOfHost(rf[r].inputs[1].given.content, "github.com", "oauth_token") = {}
    /\ rf[r].results[3] = None
    /\ rf[r].pc = "probe"
    /\ rf[r].probe = 4

\* the positions of the top-level entries of an apps.json document that have
\* a token
AppsTokenPositions(doc) ==
  {n \in DOMAIN OwnValues(doc) : JsTruthy(OptGet(OwnValues(doc)[n], "oauth_token"))}

\* the positions <<key, list position>> of the list entries of an oauth.json
\* document that have a token
OauthTokenPositions(doc) ==
  { p \in UNION { {<<n, m>> : m \in DOMAIN OwnValues(OwnValues(doc)[n])} :
                  n \in {k \in DOMAIN OwnValues(doc) : OwnValues(doc)[k].t = "array"} } :
      JsTruthy(OptGet(OwnValues(OwnValues(doc)[p[1]])[p[2]], "accessToken")) }

\* p comes before q walking keys first, then list positions
WalkedBefore(p, q) == p[1] < q[1] \/ (p[1] = q[1] /\ p[2] <= q[2])

MarkerPositions(text) == {i \in 1..Len(text) : MatchesAt(text, i, YmlMarker)}

\* the value written after the marker at position p on the marker's own
\* line: the characters up to the next white space, leading blanks skipped
ValueOnLine(text, p) ==
  LET rest == TrimStart(FirstLine(SubSeq(text, p + Len(YmlMarker), Len(text))))
  IN  SubSeq(rest, 1, SkipNonSpace(rest, 1) - 1)

\* C25: readToken_ghYml returns the value that follows the first
\* `oauth_token:` marker of the text and not-found for a text without the
\* marker; a marker whose value is missing on its own line does not yield
\* text of a following line as the token.
C25_YmlValueOnMarkerLine ==
  \A r \in Refreshes :
    LET rec == rf[r]
        text == rec.inputs[1].given.content.s
    IN  ExtractorRan(rec, 2) =>
          IF MarkerPositions(text) = {}
            THEN rec.results[2] = None
            ELSE \E p \in MarkerPositions(text) :
                   /\ \A q \in MarkerPositions(text) : p <= q
                   /\ rec.results[2] = OrNull(Some(ValueOnLine(text, p)))

\* ------------------------------------------------------------------------
\* The Setup displays
\* ------------------------------------------------------------------------

\* the outcomes of a refresh that end in _showSetupState
SetupOutcomes == {"no_credentials", "auth_rejected", "no_usage_data"}

\* the heading and body each Setup outcome puts up: no_credentials by the end
\* of _resolveToken, the others by the request callback for the responses
\* classified so
SetupTexts ==
  [o \in SetupOutcomes |->
     IF o = "no_credentials"
       THEN { [heading |-> w.setupHeading, body |-> w.setupBody] :
                w \in {ResolveManual(IdleRefresh, BuiltMenu, FALSE, <<>>).ind} }
       ELSE { [heading |-> w.setupHeading, body |-> w.setupBody] :
                w \in { FetchCallback(BuiltMenu, SessionObject, resp,
                                      CHOOSE now \in Clock : TRUE) :
                          resp \in {x \in HttpOutcomes : FetchOutcome(x) = o} } }]

\* a refresh has just ended with the Setup outcome o
EndedWith(r, o) ==
  /\ rf[r].pc \in {"resolved", "done"}
  /\ rf[r].outcome = o

\* C26: the 'token rejected' Setup display (after 401/403) and the 'no
\* credentials' Setup display (after the probes are exhausted) differ in
\* heading and in body, and each differs in heading and body from the 'data
\* unavailable' Setup display.
C26_SetupVariantsDistinct ==
  \A r \in Refreshes :
    \A o \in SetupOutcomes :
      EndedWith(r, o) =>
        /\ SetupShown(ind)
        /\ [heading |-> ind.setupHeading, body |-> ind.setupBody] \in SetupTexts[o]
        /\ \A other \in SetupOutcomes \ {o} :
             \A t \in SetupTexts[other] :
               /\ ind.setupHeading # t.heading
               /\ ind.setupBody # t.body

\* a 401 answer replaces the heading and body _buildMenu wrote, which are
\* those of the 'no credentials' display
C26_Witness ==
  \E r \in Refreshes :
    /\ EndedWith(r, "auth_rejected")
    /\ Handled(r).status = 401
    /\ SetupShown(ind)
    /\ ind.setupHeading = "Token Invalid or Expired"
    /\ ind.setupHeading # BuiltMenu.setupHeading
    /\ ind.setupBody # BuiltMenu.setupBody

\* ------------------------------------------------------------------------
\* The auto-refresh timer and teardown
\* ------------------------------------------------------------------------

\* C27: whenever the refresh-interval setting is 0 timer-driven refresh is
\* disabled, and whenever it is positive the timer refreshes; at start-up
\* and after any change of the setting while the indicator is running.
C27_TimerFollowsSetting ==
  ~destroyed => (timerSource <=> settings.refresh_interval > 0)

\* a call of _refreshUsage is taken up in this step
RefreshStarts == \E r \in Refreshes : rf[r].pc = "idle" /\ rf'[r].pc # "idle"

\* C28: after destroy() no new refresh is ever started: the timer source
\* armed in _init has been removed and the github-token handler connected in
\* _init has been disconnected.
C28_NoRefreshAfterDestroy ==
  [][destroyed => (~RefreshStarts /\ ~timerSource /\ ~handlerConnected)]_vars

\* ------------------------------------------------------------------------
\* The menu's mode and the warning dot
\* ------------------------------------------------------------------------

\* the visibility of the three setup items and of the three usage items
SetupItems(w) == {w.setupItem, w.setupSep, w.openSettingsItem}

UsageItems(w) == {w.headerItem, w.premiumResult.item, w.footerItem}

\* C29: after any sequence of refresh outcomes the menu shows exactly one
\* mode: the setup items (setup text, separator, Open Settings) are visible
\* if and only if the header, premium row and footer are hidden; the chat
\* row and its separator are never visible while the setup items are.
C29_ExactlyOneMode ==
  /\ \/ SetupItems(ind) = {TRUE} /\ UsageItems(ind) = {FALSE}
     \/ SetupItems(ind) = {FALSE} /\ UsageItems(ind) = {TRUE}
  /\ TRUE \in SetupItems(ind) => (~ind.chatResult.item /\ ~ind.chatSep)

\* a rejected token after a free plan's usage was shown: the menu is back in
\* setup mode and the chat row, visible before, is hidden
C29_Witness ==
  /\ rf[1].pc = "done"
  /\ Handled(1).status = 401
  /\ ind.planLabel = <<"F","r","e","e">>
  /\ ind.chatResult.usedLabel # ""
  /\ SetupItems(ind) = {TRUE}
  /\ UsageItems(ind) = {FALSE}
  /\ ~ind.chatResult.item

\* the class the warning dot is to carry for the remaining percentage r (in
\* tenths of a percent)
DotClassFor(r) == IF r <= 0 THEN "dot-critical" ELSE "dot-high"

\* C30: after any sequence of refresh outcomes the warning dot never carries
\* both dot-high and dot-critical, and after a successful usage update it is
\* visible if and only if the premium remaining percentage is present and at
\* most 10, with dot-critical when remaining is 0 or less and dot-high
\* otherwise.
C30_WarningDotOneClass ==
  /\ ~({"dot-high", "dot-critical"} \subseteq ind.warningDot.cls)
  /\ \A r \in Refreshes :
       (rf[r].pc = "done" /\ rf[r].outcome = "success") =>
         LET premR == RemainingOf(CarriedPremium(Handled(r).body.data))
         IN  /\ ind.warningDot.visible <=> (premR # None /\ premR[1] <= 100)
             /\ ind.warningDot.visible => ind.warningDot.cls = {DotClassFor(premR[1])}

====
